---- MODULE Spec2Model ----
(***************************************************************************)
(* Model of go-sheetkv: the Client facade (client.go), its Cache           *)
(* (cache.go), the SyncManager scheduler (client.go) and the Google        *)
(* Sheets adapter's Load/Save (adapters/googlesheets).                     *)
(*                                                                         *)
(* Go values are written as strings naming the typed value:               *)
(* "int64:1", "string:" (the empty Go string) and "nil".  Sheet cells are  *)
(* the strings the adapter writes: "1", "2", "".                           *)
(***************************************************************************)
EXTENDS Integers, Sequences, FiniteSets, TLC

\* ---------------------------------------------------------------- bounds
MaxKey == 3
MaxEvents == 4

\* ------------------------------------------------------- program constants
DefaultMaxRetries == 3
BackoffBase == 100
BackoffCeiling == 2000
GapPreserving == 0
Compacting == 1

\* ------------------------------------------------------------ input domains
Threads == {"t1", "t2"}
Sched == "sched"
Procs == Threads \cup {Sched}
Callers == {"t1"}
KeyInputs == 2..MaxKey
Nil == "nil"
RecInputs == { ("a" :> "int64:1" @@ "b" :> "int64:1") }
UpdInputs == { ("a" :> "int64:2" @@ "b" :> Nil) }
CfgMaxRetries == {0, 1}
CfgSyncInterval == {0, 1}
\* Calls made on the cache with any key an int parameter admits near the header
\* row, and partial updates that override, remove and add columns.
CacheKeyInputs == 1..MaxKey
CacheUpdInputs == UpdInputs \cup { ("b" :> Nil @@ "c" :> "int64:1") }
InitSheets ==
  { <<>>,
    << <<"a">>, <<"1">>, <<"2">> >> }

\* ----------------------------------------------------------------- helpers
SetMax(S) == CHOOSE x \in S : \A y \in S : y <= x

SetMin(S) == CHOOSE x \in S : \A y \in S : x <= y

RECURSIVE SortedSeq(_)
SortedSeq(S) ==
  IF S = {} THEN <<>> ELSE <<SetMin(S)>> \o SortedSeq(S \ {SetMin(S)})

Range(s) == { s[i] : i \in 1..Len(s) }

\* All orders in which a Go map iteration can visit the set S.
RECURSIVE Orders(_)
Orders(S) ==
  IF S = {} THEN { <<>> }
  ELSE UNION { { <<x>> \o o : o \in Orders(S \ {x}) } : x \in S }

\* ------------------------------------------------------------------- Cache
updateSchema_AppendsAll(sch, values) == { sch \o o : o \in Orders(DOMAIN values) }

updateSchema_Skips(sch, values) == { sch }

\* Cache.updateSchema: columns of the record missing from the schema are
\* appended, in map-iteration order.
updateSchema(sch, values) ==
  { sch \o o : o \in Orders(DOMAIN values \ Range(sch)) }

MergeSchemas_CurrentOrder(current, sheet) == current

\* MergeSchemas: the sheet columns found in current, in sheet order, then the
\* current columns not seen so far.
MergeSchemas(current, sheet) ==
  LET kept == SelectSeq(sheet, LAMBDA col : col \in Range(current))
  IN kept \o SelectSeq(current, LAMBDA col : col \notin Range(kept))

ApplyUpdates_StoresNil(values, updates) ==
  [c \in DOMAIN values \cup DOMAIN updates |->
     IF c \in DOMAIN updates THEN updates[c] ELSE values[c]]

\* Cache.Update's merge loop: nil removes the column, anything else overrides.
ApplyUpdates(values, updates) ==
  LET keep == (DOMAIN values \ DOMAIN updates)
                 \cup { c \in DOMAIN updates : updates[c] # Nil }
  IN [c \in keep |-> IF c \in DOMAIN updates THEN updates[c] ELSE values[c]]

MapDelete_Keeps(m, key) == m

\* delete(c.data, key)
MapDelete(m, key) == [k \in DOMAIN m \ {key} |-> m[k]]

\* c.data[key] = record
MapPut(m, key, v) == [k \in DOMAIN m \cup {key} |-> IF k = key THEN v ELSE m[k]]

GetAllRecords_Descending(d) ==
  LET ks == SortedSeq(DOMAIN d)
  IN [i \in 1..Len(ks) |-> [Key |-> ks[Len(ks) + 1 - i], Values |-> d[ks[Len(ks) + 1 - i]]]]

\* Cache.GetAllRecords: copies of all records sorted by key.
GetAllRecords(d) ==
  LET ks == SortedSeq(DOMAIN d)
  IN [i \in 1..Len(ks) |-> [Key |-> ks[i], Values |-> d[ks[i]]]]

\* The reference map the cache is compared with: a write stores the record, an
\* update overrides the columns it names and drops those it names with nil, a
\* delete removes the key.
RefSet(m, k, v) == (k :> v) @@ m

RefMerge(old, partial) ==
  LET gone == { c \in DOMAIN partial : partial[c] = Nil }
      put == DOMAIN partial \ gone
  IN [c \in (DOMAIN old \ gone) \cup put |-> IF c \in put THEN partial[c] ELSE old[c]]

RefUpdate(m, k, partial) ==
  IF k \in DOMAIN m THEN (k :> RefMerge(m[k], partial)) @@ m ELSE m

RefDelete(m, k) == [x \in DOMAIN m \ {k} |-> m[x]]

NextKey_FromZero(d) == SetMax(DOMAIN d \cup {0}) + 1

NextKey_ByCount(d) == Cardinality(DOMAIN d) + 2

\* Client.Append's key computation: maxKey starts at 1, row 1 is the header.
NextKey(d) == SetMax(DOMAIN d \cup {1}) + 1

\* ------------------------------------------------------------------- Query
\* A condition value is an interface{}: a scalar, or a []interface{} list.
Scalar(v) == [list |-> FALSE, v |-> << v >>]

List(vs) == [list |-> TRUE, v |-> vs]

Cond(column, operator, value) == [Column |-> column, Operator |-> operator, Value |-> value]

\* toFloat64 of the numeric Go values in use.
NumericValue ==
  "int64:1" :> 1 @@ "int64:2" :> 2 @@ "int:15" :> 15 @@ "int:20" :> 20 @@ "int:25" :> 25
    @@ "int:30" :> 30 @@ "int:35" :> 35 @@ "float64:20" :> 20

\* fmt.Sprintf("%v", v) where it differs from the value's name; "list" stands
\* for a slice, which prints in brackets.
PrintedValue ==
  "int:20" :> "20" @@ "float64:20" :> "20" @@ "string:20" :> "20" @@ "string:John" :> "John"
    @@ "list" :> "[...]"

isNumeric(v) == v \in DOMAIN NumericValue

toFloat64(v) == NumericValue[v]

Sprint(v) == IF v \in DOMAIN PrintedValue THEN PrintedValue[v] ELSE v

\* The operand a comparison sees for a condition value.
Operand(cv) == IF cv.list THEN "list" ELSE cv.v[1]

compareEqual_NilUnequal(a, b) ==
  IF a = Nil \/ b = Nil THEN FALSE
  ELSE IF isNumeric(a) /\ isNumeric(b) THEN toFloat64(a) = toFloat64(b)
  ELSE Sprint(a) = Sprint(b)

compareEqual(a, b) ==
  IF a = Nil /\ b = Nil THEN TRUE
  ELSE IF a = Nil \/ b = Nil THEN FALSE
  ELSE IF isNumeric(a) /\ isNumeric(b) THEN toFloat64(a) = toFloat64(b)
  ELSE Sprint(a) = Sprint(b)

compareGreater(a, b) == isNumeric(a) /\ isNumeric(b) /\ toFloat64(a) > toFloat64(b)

compareGreaterEqual(a, b) == isNumeric(a) /\ isNumeric(b) /\ toFloat64(a) >= toFloat64(b)

compareLess(a, b) == isNumeric(a) /\ isNumeric(b) /\ toFloat64(a) < toFloat64(b)

compareLessEqual(a, b) == isNumeric(a) /\ isNumeric(b) /\ toFloat64(a) <= toFloat64(b)

compareIn(a, cv) == cv.list /\ \E i \in DOMAIN cv.v : compareEqual(a, cv.v[i])

compareBetween(a, cv) ==
  /\ cv.list /\ Len(cv.v) = 2
  /\ isNumeric(a) /\ isNumeric(cv.v[1]) /\ isNumeric(cv.v[2])
  /\ toFloat64(a) >= toFloat64(cv.v[1]) /\ toFloat64(a) <= toFloat64(cv.v[2])

\* evalCondition: a column the record lacks is read as nil.
evalCondition(values, condition) ==
  LET value == IF condition.Column \in DOMAIN values THEN values[condition.Column] ELSE Nil
      operator == condition.Operator
  IN CASE operator = "==" -> compareEqual(value, Operand(condition.Value))
       [] operator = "!=" -> ~compareEqual(value, Operand(condition.Value))
       [] operator = ">" -> compareGreater(value, Operand(condition.Value))
       [] operator = ">=" -> compareGreaterEqual(value, Operand(condition.Value))
       [] operator = "<" -> compareLess(value, Operand(condition.Value))
       [] operator = "<=" -> compareLessEqual(value, Operand(condition.Value))
       [] operator = "in" -> compareIn(value, condition.Value)
       [] operator = "between" -> compareBetween(value, condition.Value)
       [] OTHER -> FALSE

\* Record.MatchesQuery: every condition holds.
MatchesQuery(values, query) ==
  \A i \in DOMAIN query.Conditions : evalCondition(values, query.Conditions[i])

ValidateQuery_ConditionsOnly(query) ==
  \A i \in DOMAIN query.Conditions :
    LET cond == query.Conditions[i]
    IN /\ cond.Operator \in {"==", "!=", ">", ">=", "<", "<=", "in", "between"}
       /\ cond.Operator = "in" => cond.Value.list
       /\ cond.Operator = "between" => (cond.Value.list /\ Len(cond.Value.v) = 2)
       /\ cond.Column # ""

validOps == {"==", "!=", ">", ">=", "<", "<=", "in", "between"}

\* ValidateQuery returns nil.
ValidateQuery(query) ==
  /\ \A i \in DOMAIN query.Conditions :
       LET cond == query.Conditions[i]
       IN /\ cond.Operator \in validOps
          /\ cond.Operator = "in" => cond.Value.list
          /\ cond.Operator = "between" => (cond.Value.list /\ Len(cond.Value.v) = 2)
          /\ cond.Column # ""
  /\ query.Limit >= 0
  /\ query.Offset >= 0

MatchingRecord(r, query) == MatchesQuery(r.Values, query)

ApplyQuery_LimitFirst(records, query) ==
  LET results == SelectSeq(records, LAMBDA r : MatchingRecord(r, query))
      limited == IF query.Limit > 0 /\ query.Limit < Len(results)
                   THEN SubSeq(results, 1, query.Limit) ELSE results
  IN IF query.Offset >= Len(limited) THEN <<>>
     ELSE IF query.Offset > 0 THEN SubSeq(limited, query.Offset + 1, Len(limited))
     ELSE limited

\* ApplyQuery: filter in the order given, then Offset, then Limit.
ApplyQuery(records, query) ==
  LET results == SelectSeq(records, LAMBDA r : MatchingRecord(r, query))
      offset == IF query.Offset > 0 /\ query.Offset < Len(results)
                  THEN SubSeq(results, query.Offset + 1, Len(results))
                  ELSE results
  IN IF ~(query.Offset > 0 /\ query.Offset < Len(results)) /\ query.Offset >= Len(results)
       THEN <<>>
       ELSE IF query.Limit > 0 /\ query.Limit < Len(offset)
              THEN SubSeq(offset, 1, query.Limit)
              ELSE offset

\* Cache.Query's "for _, record := range c.data": the records in any order.
RangeData(d) ==
  { [i \in 1..Len(o) |-> [Key |-> o[i], Values |-> d[o[i]]]] : o \in Orders(DOMAIN d) }

\* Queries: the condition lists, limits and offsets a caller passes, and the
\* caches they run on (ages 15..35 under keys 2..6, and a record without age).
MatchAll == [Conditions |-> <<>>, Limit |-> 0, Offset |-> 0]
CondInputs ==
  { <<>>,
    << Cond("age", ">=", Scalar("int:20")), Cond("age", "<=", Scalar("int:30")) >>,
    << Cond("age", "==", Scalar(Nil)) >>,
    << Cond("age", "!=", Scalar(Nil)) >>,
    << Cond("age", "!=", Scalar("int:20")) >>,
    << Cond("age", "==", Scalar("float64:20")) >>,
    << Cond("age", ">", Scalar("int:20")) >>,
    << Cond("age", "<", Scalar("int:20")) >>,
    << Cond("age", "in", List(<< Nil, "int:20" >>)) >>,
    << Cond("age", "between", List(<< "int:20", "int:30" >>)) >>,
    << Cond("age", "like", Scalar("int:20")) >>,
    << Cond("age", "in", Scalar("int:20")) >>,
    << Cond("age", "between", List(<< "int:20" >>)) >>,
    << Cond("age", "between", Scalar("int:20")) >>,
    << Cond("", "==", Scalar(Nil)) >> }
LimitInputs == {-1, 0, 2}
OffsetInputs == {-1, 0, 1, 3}
QueryInputs ==
  { [Conditions |-> c, Limit |-> l, Offset |-> o] :
      c \in CondInputs, l \in LimitInputs, o \in OffsetInputs }
AgeCache ==
  2 :> ("age" :> "int:15") @@ 3 :> ("age" :> "int:20") @@ 4 :> ("age" :> "int:25")
    @@ 5 :> ("age" :> "int:30") @@ 6 :> ("age" :> "int:35")
QueryCaches ==
  { AgeCache,
    2 :> ("age" :> "int:20") @@ 3 :> ("name" :> "string:John") @@ 4 :> ("age" :> "int:35") }

\* ------------------------------------------------------------------ Record
\* strings.Join(value, ","); a string is the sequence of its characters.
RECURSIVE Join(_)
Join(value) ==
  IF value = <<>> THEN <<>>
  ELSE IF Len(value) = 1 THEN value[1]
  ELSE value[1] \o << "," >> \o Join(Tail(value))

\* strings.Split(val, ","): the pieces between the commas, at least one.
RECURSIVE Split(_)
Split(val) ==
  IF \A i \in DOMAIN val : val[i] # "," THEN << val >>
  ELSE LET i == CHOOSE j \in DOMAIN val : val[j] = "," /\ \A k \in 1..(j - 1) : val[k] # ","
       IN << SubSeq(val, 1, i - 1) >> \o Split(SubSeq(val, i + 1, Len(val)))

\* Record.SetStrings: the comma-joined string is stored under col.
SetStrings(values, col, value) == MapPut(values, col, [type |-> "string", val |-> Join(value)])

GetAsStrings_SplitsEmpty(values, col, defaultValue) ==
  IF col \notin DOMAIN values THEN defaultValue
  ELSE IF values[col].type = "string" THEN Split(values[col].val)
  ELSE defaultValue

\* Record.GetAsStrings: a []string as it is, a string split at its commas (the
\* empty string gives the empty list), the items of a []interface{} printed,
\* and defaultValue for a missing column or any other type.
GetAsStrings(values, col, defaultValue) ==
  IF col \notin DOMAIN values THEN defaultValue
  ELSE LET v == values[col]
       IN CASE v.type = "[]string" -> v.val
            [] v.type = "string" -> IF v.val = <<>> THEN <<>> ELSE Split(v.val)
            [] v.type = "[]interface{}" -> [i \in DOMAIN v.val |-> Sprint(v.val[i])]
            [] OTHER -> defaultValue

\* ----------------------------------------------------------------- Adapter
convertToSheetValue(v) ==
  CASE v = "int64:1" -> "1"
    [] v = "int64:2" -> "2"
    [] v = "string:" -> ""
    [] v = Nil -> ""
    [] OTHER -> v

convertCellValue(c) ==
  CASE c = "1" -> "int64:1"
    [] c = "2" -> "int64:2"
    [] OTHER -> "string:" \o c

\* One data row of SheetsAdaptor.Save: a cell per schema column.
SheetRow(values, sch) ==
  [i \in 1..Len(sch) |->
     IF sch[i] \in DOMAIN values THEN convertToSheetValue(values[sch[i]]) ELSE ""]

EmptyRow(sch) == [i \in 1..Len(sch) |-> ""]

GapRows_Compact(recs, sch, currentRow) ==
  [i \in 1..Len(recs) |-> SheetRow(recs[i].Values, sch)]

\* The gap-preserving loop of SheetsAdaptor.Save: blank rows are added while
\* currentRow < record.Key, then the record's row.
RECURSIVE GapRows(_, _, _)
GapRows(recs, sch, currentRow) ==
  IF recs = <<>> THEN <<>>
  ELSE IF currentRow < Head(recs).Key
       THEN <<EmptyRow(sch)>> \o GapRows(recs, sch, currentRow + 1)
       ELSE <<SheetRow(Head(recs).Values, sch)>> \o GapRows(Tail(recs), sch, currentRow + 1)

\* The compacting loop of SheetsAdaptor.Save: one row per record.
CompactRows(recs, sch) == [i \in 1..Len(recs) |-> SheetRow(recs[i].Values, sch)]

\* The values array SheetsAdaptor.Save writes at A1 after clearing the sheet.
SaveValues(recs, sch, strategy) ==
  <<sch>> \o (IF strategy = GapPreserving THEN GapRows(recs, sch, 2) ELSE CompactRows(recs, sch))

ClearSheet_Keeps(sh) == sh

\* Values.Clear on A:ZZ: no cell of the sheet holds a value.
ClearSheet(sh) == <<>>

\* Values.Update at A1: the cells the values array covers are overwritten, the
\* others keep what they held.
UpdateSheet(sh, values) ==
  [i \in 1..(IF Len(values) > Len(sh) THEN Len(values) ELSE Len(sh)) |->
     IF i > Len(values) THEN sh[i]
     ELSE IF i > Len(sh) \/ Len(sh[i]) <= Len(values[i]) THEN values[i]
     ELSE values[i] \o SubSeq(sh[i], Len(values[i]) + 1, Len(sh[i]))]

\* Values.Get omits trailing empty cells of a row.
RECURSIVE TrimRow(_)
TrimRow(row) ==
  IF row # <<>> /\ row[Len(row)] = "" THEN TrimRow(SubSeq(row, 1, Len(row) - 1)) ELSE row

\* Schema read by SheetsAdaptor.Load: the non-empty cells of row 1.
RECURSIVE LoadSchema(_)
LoadSchema(hdr) ==
  IF hdr = <<>> THEN <<>>
  ELSE (IF Head(hdr) # "" THEN <<Head(hdr)>> ELSE <<>>) \o LoadSchema(Tail(hdr))

\* Rows that SheetsAdaptor.Load turns into records (non-empty after trimming).
LoadKeys(sh) == { r \in 2..Len(sh) : TrimRow(sh[r]) # <<>> }

LoadValues(row, sch) ==
  LET n == IF Len(TrimRow(row)) < Len(sch) THEN Len(TrimRow(row)) ELSE Len(sch)
  IN [c \in { sch[j] : j \in 1..n } |->
        convertCellValue(row[CHOOSE j \in 1..n : sch[j] = c])]

\* SheetsAdaptor.Load: the data map Cache.Load builds from the loaded records.
LoadData(sh) ==
  IF sh = <<>> THEN <<>>
  ELSE [k \in LoadKeys(sh) |-> LoadValues(sh[k], LoadSchema(sh[1]))]

\* The schema SheetsAdaptor.Load returns.
LoadedSchema(sh) == IF sh = <<>> THEN <<>> ELSE LoadSchema(sh[1])

\* An Operation{Type, Record} handed to BatchUpdate.
Op(type, key, values) == [Type |-> type, Record |-> [Key |-> key, Values |-> values]]

\* BatchUpdate's "existing.Values[k] = v" loop: every entry is stored.
MergeValues(values, updates) ==
  [c \in DOMAIN values \cup DOMAIN updates |->
     IF c \in DOMAIN updates THEN updates[c] ELSE values[c]]

\* The operations loop of SheetsAdaptor.BatchUpdate: the outcomes it can reach
\* from recordMap and schema (new columns are appended in map order). An Add of
\* a present key and an Update of an absent key return an error; a Delete goes
\* through delete(recordMap, key) whether the key is present or not.
RECURSIVE ApplyOps(_, _, _)
ApplyOps(recordMap, sch, ops) ==
  IF ops = <<>> THEN { [err |-> "nil", data |-> recordMap, schema |-> sch] }
  ELSE LET op == Head(ops)
           key == op.Record.Key
       IN CASE op.Type = "OpAdd" ->
                 IF key \in DOMAIN recordMap
                   THEN { [err |-> "duplicate", data |-> recordMap, schema |-> sch] }
                   ELSE UNION { ApplyOps(MapPut(recordMap, key, op.Record.Values), s, Tail(ops)) :
                                  s \in updateSchema(sch, op.Record.Values) }
            [] op.Type = "OpUpdate" ->
                 IF key \in DOMAIN recordMap
                   THEN UNION { ApplyOps(MapPut(recordMap, key,
                                                MergeValues(recordMap[key], op.Record.Values)),
                                         s, Tail(ops)) :
                                  s \in updateSchema(sch, op.Record.Values) }
                   ELSE { [err |-> "notfound", data |-> recordMap, schema |-> sch] }
            [] op.Type = "OpDelete" -> ApplyOps(MapDelete(recordMap, key), sch, Tail(ops))

\* Row k of the sheet holds a record (it would be loaded with key k).
RowHolds(sh, k) == k \in LoadKeys(sh)



\* ------------------------------------------------------------------- state
VARIABLES
  cfgN,         \* the MaxRetries of the Config handed to New
  maxRetries,   \* Client.config.MaxRetries after New's defaulting
  closed,       \* Client.closed
  syncManager,  \* Client.syncManager is non-nil
  mu,           \* Client.mu: "free" or the thread holding it
  data,         \* Cache.data: key -> Values
  dirty,        \* Cache.dirty: set of keys
  schema,       \* Cache.schema
  sheet,        \* the spreadsheet behind the adapter: sequence of rows of cells
  pc,           \* position of every thread and of the scheduler goroutine
  sv,           \* locals of the load/save a process is running
  res,          \* what the last finished facade call of a thread returned
  ticker,       \* SyncManager.ticker: "none", "running", "stopped"
  done,         \* SyncManager.done is closed
  syncMutex,    \* SyncManager.syncMutex: "free" or its holder
  syncing,      \* SyncManager.syncing
  compactSaves, \* number of saves that reached the adapter with Compacting
  deleted,      \* keys of persisted records removed by Delete and not written since
  freed,        \* keys removed by Delete so far
  ref,          \* the reference map: what the writes so far should have left
  nCalls,       \* facade calls each thread has started
  nEnv          \* ticks delivered and adapter calls failed so far

vars == << cfgN, maxRetries, closed, syncManager, mu, data, dirty, schema, sheet, pc, sv,
           res, ticker, done, syncMutex, syncing, compactSaves,
           deleted, freed, ref, nCalls, nEnv >>

clientVars == << cfgN, maxRetries, closed, syncManager >>
cacheVars == << data, dirty, schema >>
schedVars == << ticker, done, syncMutex, syncing >>
budgetVars == << nCalls, nEnv >>

\* Events the environment may still produce: facade calls, ticks and adapter
\* failures.
Budget == MaxEvents - nEnv - nCalls["t1"] - nCalls["t2"]

ghostVars == << compactSaves, deleted, freed, ref >>

\* Config.RetryInterval values in milliseconds: New's default of one second
\* and a tenth of it.
RetryIntervalInputs == {100, 1000}

\* The time.Sleep of the retry loops after the failed attempt with loop index
\* i, in milliseconds: (1 << i) * 100ms, at most 2s.
Backoff(i) ==
  IF (2 ^ i) * BackoffBase > BackoffCeiling THEN BackoffCeiling ELSE (2 ^ i) * BackoffBase

\* Locals of loadFromAdapter/saveToAdapter: i and err are the loop's variables,
\* slept is the last backoff slept,
\* calls counts the adapter calls made, adapter errors are numbered by the call
\* that returned them (0 is nil).
NoSv == [origin |-> "none", dirtyKeys |-> {}, records |-> <<>>, schema |-> <<>>,
         strategy |-> GapPreserving, i |-> 0, calls |-> 0, err |-> 0, slept |-> 0]

\* What a finished call returned: key is the key the call was about, out the
\* records it returned, arg the partial update or the query it was given.
NoRes == [op |-> "none", err |-> "nil", key |-> 0, calls |-> 0, cause |-> 0,
          out |-> <<>>, arg |-> <<>>]

Result(op, err, key) == [NoRes EXCEPT !.op = op, !.err = err, !.key = key]

SaveResult(op, err, calls, cause) ==
  [NoRes EXCEPT !.op = op, !.err = err, !.calls = calls, !.cause = cause]

SavePhases == {"save_dirty", "save_records", "save_schema", "save_call", "save_clear"}

LoadDirty_Keeps(d) == d

\* Cache.Load: c.dirty = make(map[int]bool)
LoadDirty(d) == {}

\* New: MaxRetries <= 0 is replaced by the default.
NewMaxRetries(cfg) == IF cfg <= 0 THEN DefaultMaxRetries ELSE cfg

StrategyFor_AlwaysGap(origin) == GapPreserving

\* Strategy a caller of saveToAdapter asks for.
StrategyFor(origin) == IF origin = "Close" THEN Compacting ELSE GapPreserving

ClientClosed_Never(c) == FALSE

\* The facade's "if c.closed { return error }".
ClientClosed(c) == c

ClearDirty_Keeps(d) == d

\* Cache.ClearDirty: c.dirty = make(map[int]bool)
ClearDirty(d) == {}

MayRetry_OneMore(i, n) == i <= n

\* The retry loops after failed attempt i: i++, then i <= c.config.MaxRetries.
MayRetry(i, n) == i + 1 <= n

CloseErr_Swallowed(err) == "nil"

\* Close's return value: the final save's error wrapped, or nil.
CloseErr(err) == IF err # "nil" THEN "close:" \o err ELSE "nil"

CloseNext_SaveOnlyAfterStop(sm) == IF sm THEN "stop" ELSE "idle"

CloseNext_NoStop(sm) == "save_dirty"

\* Close after c.mu.Unlock(): Stop() when there was a sync manager, then the
\* final saveToAdapter.
CloseNext(sm) == IF sm THEN "stop" ELSE "save_dirty"

\* New + NewCache + NewSyncManager + Start, over an existing spreadsheet; the
\* threads in callers are the ones that will call the client.
InitWith(callers) ==
  /\ cfgN \in CfgMaxRetries
  /\ maxRetries = NewMaxRetries(cfgN)
  /\ \E iv \in CfgSyncInterval :
       /\ syncManager = (iv > 0)
       /\ ticker = IF iv > 0 THEN "running" ELSE "none"
       /\ pc = [p \in Procs |-> IF p = Sched THEN (IF iv > 0 THEN "loop" ELSE "none")
                                ELSE IF p \in callers THEN "idle" ELSE "none"]
  /\ closed = FALSE
  /\ mu = "free"
  /\ data = <<>>
  /\ dirty = {}
  /\ schema = <<>>
  /\ sheet \in InitSheets
  /\ sv = [p \in Procs |-> NoSv]
  /\ res = [t \in Threads |-> NoRes]
  /\ done = FALSE
  /\ syncMutex = "free"
  /\ syncing = FALSE
  /\ compactSaves = 0
  /\ deleted = {}
  /\ freed = {}
  /\ ref = <<>>
  /\ nCalls = [t \in Threads |-> 0]
  /\ nEnv = 0

\* A new client with an empty cache, called by one thread.
Init == InitWith(Callers)

\* A thread may start a facade call: it is between calls.
CanCall(t) == pc[t] = "idle" /\ Budget > 0

Locked_NoLock(t) == CanCall(t)

\* c.mu.Lock() succeeds.
Locked(t) == CanCall(t) /\ mu = "free"

\* One facade call started by t.
Called(t) == nCalls' = [nCalls EXCEPT ![t] = @ + 1] /\ nEnv' = nEnv

Reject_MarksDirty(t, r) ==
  /\ res' = [res EXCEPT ![t] = r]
  /\ dirty' = dirty \cup {r.key}
  /\ UNCHANGED << data, schema, deleted, freed, ref >>

\* A facade call that returns r and touches neither the cache nor its history.
Reject(t, r) ==
  /\ res' = [res EXCEPT ![t] = r]
  /\ UNCHANGED << cacheVars, deleted, freed, ref >>

\* ------------------------------------------------------- facade: cache calls
\* Client.Get -> Cache.Get: a copy of the record, or ErrKeyNotFound.
Get(t, key) ==
  /\ Locked(t)
  /\ Called(t)
  /\ IF ClientClosed(closed) THEN Reject(t, Result("Get", "closed", 0))
     ELSE IF key \notin DOMAIN data THEN Reject(t, Result("Get", "notfound", key))
     ELSE Reject(t, [Result("Get", "nil", key) EXCEPT
                       !.out = << [Key |-> key, Values |-> data[key]] >>])
  /\ UNCHANGED << clientVars, mu, sheet, pc, sv, schedVars, compactSaves >>

\* Cache.Set: the record is stored under key, the key marked dirty, the schema
\* extended.
CacheSet(t, key, values) ==
  /\ data' = MapPut(data, key, values)
  /\ dirty' = dirty \cup {key}
  /\ schema' \in updateSchema(schema, values)
  /\ deleted' = deleted \ {key}
  /\ freed' = freed
  /\ ref' = RefSet(ref, key, values)
  /\ res' = [res EXCEPT ![t] = Result("Set", "nil", key)]

\* Client.Set -> Cache.Set
Set(t, key, values) ==
  /\ Locked(t)
  /\ Called(t)
  /\ IF ClientClosed(closed) THEN Reject(t, Result("Set", "closed", 0))
     ELSE CacheSet(t, key, values)
  /\ UNCHANGED << clientVars, mu, sheet, pc, sv, schedVars, compactSaves >>

\* Cache.Append on a record whose Key is key.
CacheAppend(t, key, values) ==
  IF key \in DOMAIN data
    THEN Reject(t, Result("Append", "duplicate", key))
    ELSE /\ data' = MapPut(data, key, values)
         /\ dirty' = dirty \cup {key}
         /\ schema' \in updateSchema(schema, values)
         /\ deleted' = deleted \ {key}
         /\ freed' = freed
         /\ ref' = RefSet(ref, key, values)
         /\ res' = [res EXCEPT ![t] = Result("Append", "nil", key)]

\* Cache.Append called on the cache itself, with the key the caller put into
\* the record.
CacheAppendCall(t, key, values) ==
  /\ CanCall(t)
  /\ Called(t)
  /\ CacheAppend(t, key, values)
  /\ UNCHANGED << clientVars, mu, sheet, pc, sv, schedVars, compactSaves >>

\* Client.Append: the key is computed from the records present, then Cache.Append.
ClientAppend(t, values) ==
  /\ Locked(t)
  /\ NextKey(data) <= MaxKey + 1
  /\ Called(t)
  /\ IF ClientClosed(closed) THEN Reject(t, Result("Append", "closed", 0))
     ELSE CacheAppend(t, NextKey(data), values)
  /\ UNCHANGED << clientVars, mu, sheet, pc, sv, schedVars, compactSaves >>

\* Client.Append up to the key computation, for callers that run side by side:
\* c.mu is taken, a closed client is refused, and record.Key is set to one more
\* than the largest key GetAllRecords returned.
AppendKey(t, values) ==
  /\ Locked(t)
  /\ NextKey(data) <= MaxKey + 1
  /\ Called(t)
  /\ IF ClientClosed(closed)
       THEN /\ res' = [res EXCEPT ![t] = Result("Append", "closed", 0)]
            /\ UNCHANGED << mu, pc, sv >>
       ELSE /\ mu' = t
            /\ pc' = [pc EXCEPT ![t] = "append"]
            /\ sv' = [sv EXCEPT ![t] =
                        [NoSv EXCEPT !.origin = "Append",
                                     !.records = << [Key |-> NextKey(data), Values |-> values] >>]]
            /\ UNCHANGED res
  /\ UNCHANGED << clientVars, cacheVars, sheet, schedVars, ghostVars >>

\* return c.cache.Append(record), then the deferred c.mu.Unlock().
AppendInsert(t) ==
  /\ pc[t] = "append"
  /\ CacheAppend(t, sv[t].records[1].Key, sv[t].records[1].Values)
  /\ mu' = "free"
  /\ pc' = [pc EXCEPT ![t] = "idle"]
  /\ sv' = [sv EXCEPT ![t] = NoSv]
  /\ UNCHANGED << clientVars, sheet, schedVars, compactSaves, budgetVars >>

\* Cache.Update: the merged copy replaces the record, the key is marked dirty,
\* the schema extended with the merged record's columns.
CacheUpdate(t, key, updates) ==
  IF key \notin DOMAIN data
    THEN Reject(t, Result("Update", "notfound", key))
    ELSE /\ data' = MapPut(data, key, ApplyUpdates(data[key], updates))
         /\ dirty' = dirty \cup {key}
         /\ schema' \in updateSchema(schema, ApplyUpdates(data[key], updates))
         /\ deleted' = deleted \ {key}
         /\ freed' = freed
         /\ ref' = RefUpdate(ref, key, updates)
         /\ res' = [res EXCEPT ![t] = [Result("Update", "nil", key) EXCEPT !.arg = << updates >>]]

\* Client.Update -> Cache.Update
Update(t, key, updates) ==
  /\ Locked(t)
  /\ Called(t)
  /\ IF ClientClosed(closed) THEN Reject(t, Result("Update", "closed", 0))
     ELSE CacheUpdate(t, key, updates)
  /\ UNCHANGED << clientVars, mu, sheet, pc, sv, schedVars, compactSaves >>

DirtyDelete_Keeps(d, key) == d

\* delete(c.dirty, key)
DirtyDelete(d, key) == d \ {key}

\* Cache.Delete: the key leaves data and dirty.
CacheDelete(t, key) ==
  IF key \notin DOMAIN data
    THEN Reject(t, Result("Delete", "notfound", key))
    ELSE /\ data' = MapDelete(data, key)
         /\ dirty' = DirtyDelete(dirty, key)
         /\ schema' = schema
         /\ deleted' = IF key \notin dirty /\ RowHolds(sheet, key)
                         THEN deleted \cup {key} ELSE deleted
         /\ freed' = freed \cup {key}
         /\ ref' = RefDelete(ref, key)
         /\ res' = [res EXCEPT ![t] = Result("Delete", "nil", key)]

\* Client.Delete -> Cache.Delete
Delete(t, key) ==
  /\ Locked(t)
  /\ Called(t)
  /\ IF ClientClosed(closed) THEN Reject(t, Result("Delete", "closed", 0))
     ELSE CacheDelete(t, key)
  /\ UNCHANGED << clientVars, mu, sheet, pc, sv, schedVars, compactSaves >>

\* Client.Query -> Cache.Query: the query is validated, the records are
\* collected by ranging over the data map and ApplyQuery filters and pages
\* them; the cache is left as it is.
Query(t, query) ==
  /\ Locked(t)
  /\ Called(t)
  /\ IF ClientClosed(closed) THEN Reject(t, Result("Query", "closed", 0))
     ELSE IF ~ValidateQuery(query)
       THEN Reject(t, [Result("Query", "invalid", 0) EXCEPT !.arg = << query >>])
     ELSE \E records \in RangeData(data) :
            Reject(t, [Result("Query", "nil", 0) EXCEPT
                         !.arg = << query >>, !.out = ApplyQuery(records, query)])
  /\ UNCHANGED << clientVars, mu, sheet, pc, sv, schedVars, compactSaves >>

\* ------------------------------------------------------------ saveToAdapter
SyncMutexUnlock_Forgotten(m) == m

\* performSync's deferred sm.syncMutex.Unlock()
SyncMutexUnlock(m) == "free"

\* How control leaves saveToAdapter, by caller: Sync unlocks c.mu and returns
\* the error; Close returns it wrapped; performSync drops it and unlocks
\* syncMutex.
SaveReturn(p, err, calls, cause) ==
  /\ sv' = [sv EXCEPT ![p] = NoSv]
  /\ IF sv[p].origin = "Sync"
       THEN /\ res' = [res EXCEPT ![p] = SaveResult("Sync", err, calls, cause)]
            /\ mu' = "free"
            /\ pc' = [pc EXCEPT ![p] = "idle"]
            /\ UNCHANGED << syncMutex, syncing >>
       ELSE IF sv[p].origin = "Close"
       THEN /\ res' = [res EXCEPT ![p] = SaveResult("Close", CloseErr(err), calls, cause)]
            /\ pc' = [pc EXCEPT ![p] = "idle"]
            /\ UNCHANGED << mu, syncMutex, syncing >>
       ELSE /\ syncMutex' = SyncMutexUnlock(syncMutex)
            /\ syncing' = FALSE
            /\ pc' = [pc EXCEPT ![p] = "loop"]
            /\ UNCHANGED << mu, res >>

SaveDirty_AlwaysSaves(p) ==
  /\ pc[p] = "save_dirty"
  /\ sv' = [sv EXCEPT ![p].dirtyKeys = dirty]
  /\ pc' = [pc EXCEPT ![p] = "save_records"]
  /\ UNCHANGED << res, mu, syncMutex, syncing >>
  /\ UNCHANGED << clientVars, cacheVars, sheet, ticker, done, ghostVars,
                  budgetVars >>

\* dirtyKeys := c.cache.GetDirtyKeys(); nothing dirty: return nil.
SaveDirty(p) ==
  /\ pc[p] = "save_dirty"
  /\ IF dirty = {}
       THEN SaveReturn(p, "nil", 0, 0)
       ELSE /\ sv' = [sv EXCEPT ![p].dirtyKeys = dirty]
            /\ pc' = [pc EXCEPT ![p] = "save_records"]
            /\ UNCHANGED << res, mu, syncMutex, syncing >>
  /\ UNCHANGED << clientVars, cacheVars, sheet, ticker, done, ghostVars,
                  budgetVars >>

\* records := c.cache.GetAllRecords()
SaveRecords(p) ==
  /\ pc[p] = "save_records"
  /\ sv' = [sv EXCEPT ![p].records = GetAllRecords(data)]
  /\ pc' = [pc EXCEPT ![p] = "save_schema"]
  /\ UNCHANGED << clientVars, mu, cacheVars, sheet, res, schedVars, ghostVars, budgetVars >>

\* schema := c.cache.GetSchema()
SaveSchema(p) ==
  /\ pc[p] = "save_schema"
  /\ sv' = [sv EXCEPT ![p].schema = schema]
  /\ pc' = [pc EXCEPT ![p] = "save_call"]
  /\ UNCHANGED << clientVars, mu, cacheVars, sheet, res, schedVars, ghostVars, budgetVars >>

\* Bookkeeping of one Adapter.Save call.
NoteSave(p) ==
  compactSaves' = IF sv[p].strategy = Compacting /\ sv[p].calls = 0
                    THEN compactSaves + 1 ELSE compactSaves

\* err = c.adaptor.Save(...) returns nil: the sheet holds the snapshot.
SaveCallOk(p) ==
  /\ pc[p] = "save_call"
  /\ sheet' = UpdateSheet(ClearSheet(sheet),
                          SaveValues(sv[p].records, sv[p].schema, sv[p].strategy))
  /\ NoteSave(p)
  /\ sv' = [sv EXCEPT ![p].calls = @ + 1, ![p].err = 0]
  /\ pc' = [pc EXCEPT ![p] = "save_clear"]
  /\ UNCHANGED << clientVars, mu, cacheVars, res, schedVars, deleted, freed, ref, budgetVars >>

\* err = c.adaptor.Save(...) returns an error, either from the clear request
\* (sheet untouched) or from the update request (sheet already cleared); the
\* loop retries while i < MaxRetries and otherwise returns the wrapped error.
SaveCallFail(p, cleared) ==
  /\ pc[p] = "save_call"
  /\ Budget > 0
  /\ nEnv' = nEnv + 1
  /\ sheet' = IF cleared THEN ClearSheet(sheet) ELSE sheet
  /\ NoteSave(p)
  /\ IF MayRetry(sv[p].i, maxRetries)
       THEN /\ sv' = [sv EXCEPT ![p].i = @ + 1, ![p].calls = @ + 1,
                                ![p].err = sv[p].calls + 1,
                                ![p].slept = Backoff(sv[p].i)]
            /\ UNCHANGED << pc, res, mu, syncMutex, syncing >>
       ELSE SaveReturn(p, "failed", sv[p].calls + 1, sv[p].calls + 1)
  /\ UNCHANGED << clientVars, cacheVars, ticker, done, deleted, freed, ref,
                  nCalls >>

\* c.cache.ClearDirty(); return nil
SaveClear(p) ==
  /\ pc[p] = "save_clear"
  /\ dirty' = ClearDirty(dirty)
  /\ SaveReturn(p, "nil", sv[p].calls, 0)
  /\ UNCHANGED << clientVars, data, schema, sheet, ticker, done, ghostVars,
                  budgetVars >>

\* ----------------------------------------------------------- Sync and Close
\* Client.Sync: takes c.mu, fails fast when closed, else runs saveToAdapter
\* while holding c.mu.
Sync(t) ==
  /\ Locked(t)
  /\ Called(t)
  /\ IF ClientClosed(closed)
       THEN /\ res' = [res EXCEPT ![t] = Result("Sync", "closed", 0)]
            /\ UNCHANGED << mu, pc, sv >>
       ELSE /\ mu' = t
            /\ pc' = [pc EXCEPT ![t] = "save_dirty"]
            /\ sv' = [sv EXCEPT ![t] = [NoSv EXCEPT !.origin = "Sync",
                                                    !.strategy = StrategyFor("Sync")]]
            /\ UNCHANGED res
  /\ UNCHANGED << clientVars, cacheVars, sheet, schedVars, ghostVars >>

MarkClosed_Forgotten == FALSE

\* c.closed = true
MarkClosed == TRUE

\* Client.Close up to c.mu.Unlock(): an already closed client returns nil;
\* otherwise closed is set and the sync manager is taken out of the client.
\* Stop is called only when the client had a sync manager.
Close(t) ==
  /\ Locked(t)
  /\ Called(t)
  /\ IF ClientClosed(closed)
       THEN /\ res' = [res EXCEPT ![t] = Result("Close", "nil", 0)]
            /\ UNCHANGED << closed, syncManager, pc, sv >>
       ELSE /\ closed' = MarkClosed
            /\ syncManager' = FALSE
            /\ sv' = [sv EXCEPT ![t] = [NoSv EXCEPT !.origin = "Close",
                                                    !.strategy = StrategyFor("Close")]]
            /\ pc' = [pc EXCEPT ![t] = CloseNext(syncManager)]
            /\ UNCHANGED res
  /\ UNCHANGED << cfgN, maxRetries, mu, cacheVars, sheet, schedVars, ghostVars >>

\* SyncManager.Stop: sm.ticker.Stop(); close(sm.done)
Stop(t) ==
  /\ pc[t] = "stop"
  /\ ticker' = "stopped"
  /\ done' = TRUE
  /\ pc' = [pc EXCEPT ![t] = "stop_wait"]
  /\ UNCHANGED << clientVars, mu, cacheVars, sheet, sv, res, syncMutex,
                  syncing, ghostVars, budgetVars >>

WaitGroupDone_NoWait(p) == TRUE

\* sm.wg.Wait() can return: the deferred sm.wg.Done() of goroutine p has run.
WaitGroupDone(p) == pc[p] = "exited"

\* SyncManager.Stop: sm.wg.Wait() returns once the loop goroutine has exited.
StopWait(t) ==
  /\ pc[t] = "stop_wait"
  /\ WaitGroupDone(Sched)
  /\ pc' = [pc EXCEPT ![t] = "stop_lock"]
  /\ UNCHANGED << clientVars, mu, cacheVars, sheet, sv, res, schedVars, ghostVars,
                  budgetVars >>

\* SyncManager.Stop: sm.syncMutex.Lock(); sm.syncMutex.Unlock(); Close then
\* goes on to its final saveToAdapter.
StopLock(t) ==
  /\ pc[t] = "stop_lock"
  /\ syncMutex = "free"
  /\ pc' = [pc EXCEPT ![t] = "save_dirty"]
  /\ UNCHANGED << clientVars, mu, cacheVars, sheet, sv, res, schedVars, ghostVars,
                  budgetVars >>

\* --------------------------------------------------------------- Initialize
\* Client.Initialize: loadFromAdapter, without c.mu and without a closed check.
Initialize(t) ==
  /\ CanCall(t)
  /\ Called(t)
  /\ pc' = [pc EXCEPT ![t] = "load_call"]
  /\ sv' = [sv EXCEPT ![t] = [NoSv EXCEPT !.origin = "Initialize"]]
  /\ UNCHANGED << clientVars, mu, cacheVars, sheet, res, schedVars, ghostVars >>

\* records, schema, err = c.adaptor.Load(ctx) returns nil: break out of the loop
\* with what the sheet holds now.
LoadCallOk(t) ==
  /\ pc[t] = "load_call"
  /\ sv' = [sv EXCEPT ![t].records = sheet, ![t].calls = @ + 1, ![t].err = 0]
  /\ pc' = [pc EXCEPT ![t] = "load_apply"]
  /\ UNCHANGED << clientVars, mu, cacheVars, sheet, res, schedVars, ghostVars,
                  budgetVars >>

\* c.adaptor.Load fails: retry while i < MaxRetries, else return the wrapped error.
LoadCallFail(t) ==
  /\ pc[t] = "load_call"
  /\ Budget > 0
  /\ nEnv' = nEnv + 1
  /\ IF MayRetry(sv[t].i, maxRetries)
       THEN /\ sv' = [sv EXCEPT ![t].i = @ + 1, ![t].calls = @ + 1,
                                ![t].err = sv[t].calls + 1,
                                ![t].slept = Backoff(sv[t].i)]
            /\ UNCHANGED << pc, res >>
       ELSE /\ res' = [res EXCEPT ![t] = SaveResult("Initialize", "failed",
                                                    sv[t].calls + 1, sv[t].calls + 1)]
            /\ sv' = [sv EXCEPT ![t] = NoSv]
            /\ pc' = [pc EXCEPT ![t] = "idle"]
  /\ UNCHANGED << clientVars, mu, cacheVars, sheet, schedVars, ghostVars, nCalls >>

\* c.cache.Load(records, schema): data, dirty and schema are replaced.
LoadApply(t) ==
  /\ pc[t] = "load_apply"
  /\ data' = LoadData(sv[t].records)
  /\ dirty' = LoadDirty(dirty)
  /\ ref' = data'
  /\ schema' = IF sv[t].records = <<>> THEN <<>> ELSE LoadSchema(sv[t].records[1])
  /\ deleted' = {}
  /\ res' = [res EXCEPT ![t] = SaveResult("Initialize", "nil", sv[t].calls, 0)]
  /\ sv' = [sv EXCEPT ![t] = NoSv]
  /\ pc' = [pc EXCEPT ![t] = "idle"]
  /\ UNCHANGED << clientVars, mu, sheet, schedVars, compactSaves, freed, budgetVars >>

\* --------------------------------------------------------------- SyncManager
\* The ticker fires and the loop's select takes the tick: performSync does
\* TryLock (a held lock skips the cycle), sets syncing, returns when no key is
\* dirty and calls saveToAdapter otherwise.
SchedTick ==
  /\ pc[Sched] = "loop"
  /\ ticker = "running"
  /\ Budget > 0
  /\ nEnv' = nEnv + 1
  /\ IF syncMutex = "free" /\ dirty # {}
       THEN /\ syncMutex' = Sched
            /\ syncing' = TRUE
            /\ pc' = [pc EXCEPT ![Sched] = "save_dirty"]
            /\ sv' = [sv EXCEPT ![Sched] = [NoSv EXCEPT !.origin = "tick",
                                                        !.strategy = StrategyFor("tick")]]
       ELSE UNCHANGED << syncMutex, syncing, pc, sv >>
  /\ UNCHANGED << clientVars, mu, cacheVars, sheet, res, ticker, done, ghostVars, nCalls >>

\* The loop's select takes the closed done channel and the goroutine returns.
SchedExit ==
  /\ pc[Sched] = "loop"
  /\ done
  /\ pc' = [pc EXCEPT ![Sched] = "exited"]
  /\ UNCHANGED << clientVars, mu, cacheVars, sheet, sv, res, schedVars, ghostVars,
                  budgetVars >>

\* -------------------------------------------------------------- specification
Next ==
  \/ \E t \in Threads, k \in KeyInputs : Get(t, k)
  \/ \E t \in Threads, k \in KeyInputs, r \in RecInputs : Set(t, k, r)
  \/ \E t \in Threads, r \in RecInputs : ClientAppend(t, r)
  \/ \E t \in Threads, k \in KeyInputs, u \in UpdInputs : Update(t, k, u)
  \/ \E t \in Threads, k \in KeyInputs : Delete(t, k)
  \/ \E t \in Threads : Query(t, MatchAll)
  \/ \E t \in Threads : Sync(t)
  \/ \E t \in Threads : Close(t)
  \/ \E t \in Threads : Stop(t)
  \/ \E t \in Threads : StopWait(t)
  \/ \E t \in Threads : StopLock(t)
  \/ \E t \in Threads : Initialize(t)
  \/ \E t \in Threads : LoadCallOk(t)
  \/ \E t \in Threads : LoadCallFail(t)
  \/ \E t \in Threads : LoadApply(t)
  \/ \E p \in Procs : SaveDirty(p)
  \/ \E p \in Procs : SaveRecords(p)
  \/ \E p \in Procs : SaveSchema(p)
  \/ \E p \in Procs : SaveCallOk(p)
  \/ \E p \in Procs, cleared \in BOOLEAN : SaveCallFail(p, cleared)
  \/ \E p \in Procs : SaveClear(p)
  \/ SchedTick
  \/ SchedExit

Spec == Init /\ [][Next]_vars

\* ------------------------------------------------ specification: cache calls
\* One thread reads and writes the cache with any key and loads it from the
\* sheet.
NextCache ==
  \/ \E t \in Threads, k \in CacheKeyInputs : Get(t, k)
  \/ \E t \in Threads, k \in CacheKeyInputs, r \in RecInputs : Set(t, k, r)
  \/ \E t \in Threads, k \in CacheKeyInputs, r \in RecInputs : CacheAppendCall(t, k, r)
  \/ \E t \in Threads, k \in CacheKeyInputs, u \in CacheUpdInputs : Update(t, k, u)
  \/ \E t \in Threads, k \in CacheKeyInputs : Delete(t, k)
  \/ \E t \in Threads : Initialize(t)
  \/ \E t \in Threads : LoadCallOk(t)
  \/ \E t \in Threads : LoadApply(t)

SpecCache == Init /\ [][NextCache]_vars

\* ----------------------------------------------- specification: BatchUpdate
\* Batches: one or two operations on the keys in use.
OpInputs ==
  { Op("OpAdd", k, r) : k \in KeyInputs, r \in RecInputs }
    \cup { Op("OpUpdate", k, u) : k \in KeyInputs, u \in UpdInputs }
    \cup { Op("OpDelete", k, <<>>) : k \in KeyInputs }
BatchInputs == { << o >> : o \in OpInputs } \cup { << o1, o2 >> : o1, o2 \in OpInputs }
BatchFailures == {"none", "load", "clear", "update"}

\* SheetsAdaptor.BatchUpdate: Load, the operations loop, then a gap-preserving
\* Save of the result. fail names the request that returns an error, if any:
\* the load's get, or the save's clear or update.
BatchUpdate(t, ops, fail) ==
  /\ CanCall(t)
  /\ Called(t)
  /\ \E o \in ApplyOps(LoadData(sheet), LoadedSchema(sheet), ops) :
       LET err == IF fail = "load" THEN "failed"
                  ELSE IF o.err # "nil" THEN o.err
                  ELSE IF fail # "none" THEN "failed" ELSE "nil"
       IN /\ res' = [res EXCEPT ![t] = [Result("BatchUpdate", err, 0) EXCEPT !.arg = << ops >>]]
          /\ sheet' = IF fail = "load" \/ o.err # "nil" \/ fail = "clear" THEN sheet
                      ELSE IF fail = "update" THEN ClearSheet(sheet)
                      ELSE UpdateSheet(ClearSheet(sheet),
                                       SaveValues(GetAllRecords(o.data), o.schema, GapPreserving))
  /\ UNCHANGED << clientVars, mu, cacheVars, pc, sv, schedVars, ghostVars >>

NextBatch == \E t \in Threads, ops \in BatchInputs, fail \in BatchFailures : BatchUpdate(t, ops, fail)

\* n calls are made beside a client whose cache is empty, against a sheet that
\* is empty or holds two records.
InitAdapter(n) ==
  /\ cfgN = 0
  /\ maxRetries = NewMaxRetries(cfgN)
  /\ syncManager = FALSE
  /\ ticker = "none"
  /\ pc = [p \in Procs |-> IF p \in Callers THEN "idle" ELSE "none"]
  /\ closed = FALSE
  /\ mu = "free"
  /\ data = <<>>
  /\ dirty = {}
  /\ schema = <<>>
  /\ sheet \in InitSheets
  /\ sv = [p \in Procs |-> NoSv]
  /\ res = [t \in Threads |-> NoRes]
  /\ done = FALSE
  /\ syncMutex = "free"
  /\ syncing = FALSE
  /\ compactSaves = 0
  /\ deleted = {}
  /\ freed = {}
  /\ ref = data
  /\ nCalls = [t \in Threads |-> 0]
  /\ nEnv = MaxEvents - n

InitBatch == InitAdapter(2)

SpecBatch == InitBatch /\ [][NextBatch]_vars

\* --------------------------------------------- specification: MergeSchemas
\* Schemas of up to three columns, repeated names included.
ColumnInputs == {"a", "b", "c"}
SchemaInputs ==
  { <<>> } \cup { << x >> : x \in ColumnInputs }
    \cup { << x, y >> : x, y \in ColumnInputs }
    \cup { << x, y, z >> : x, y, z \in ColumnInputs }

\* A call of the package function MergeSchemas.
MergeSchemasCall(t, current, sheetSchema) ==
  /\ CanCall(t)
  /\ Called(t)
  /\ res' = [res EXCEPT ![t] = [Result("MergeSchemas", "nil", 0) EXCEPT
                                  !.arg = << current, sheetSchema >>,
                                  !.out = MergeSchemas(current, sheetSchema)]]
  /\ UNCHANGED << clientVars, mu, cacheVars, sheet, pc, sv, schedVars, ghostVars >>

\* One call of a package function or of a Record method.
InitCall == InitAdapter(1)

NextMerge == \E t \in Threads, current, sheetSchema \in SchemaInputs : MergeSchemasCall(t, current, sheetSchema)

SpecMerge == InitCall /\ [][NextMerge]_vars

\* ------------------------------------------------ specification: string lists
\* Strings of up to two characters, commas included, and lists of up to two.
StringInputs ==
  { <<>> } \cup { << x >> : x \in {"x", "y", ","} } \cup { << x, y >> : x, y \in {"x", "y", ","} }
StringsInputs ==
  { <<>> } \cup { << x >> : x \in StringInputs } \cup { << x, y >> : x, y \in StringInputs }

\* r.SetStrings("tags", value) on an empty record, then
\* r.GetAsStrings("tags", defaultValue).
SetGetStrings(t, value, defaultValue) ==
  /\ CanCall(t)
  /\ Called(t)
  /\ res' = [res EXCEPT ![t] = [Result("SetStrings", "nil", 0) EXCEPT
                                  !.arg = << value, defaultValue >>,
                                  !.out = GetAsStrings(SetStrings(<<>>, "tags", value),
                                                       "tags", defaultValue)]]
  /\ UNCHANGED << clientVars, mu, cacheVars, sheet, pc, sv, schedVars, ghostVars >>

NextStrings ==
  \E t \in Threads, value \in StringsInputs, defaultValue \in { <<>>, << << "x" >> >> } :
    SetGetStrings(t, value, defaultValue)

SpecStrings == InitCall /\ [][NextStrings]_vars

\* ---------------------------------------------------- specification: queries
\* One query is run on a cache whose records were written and not yet saved,
\* by a client without a scheduler.
InitQuery ==
  /\ cfgN = 0
  /\ maxRetries = NewMaxRetries(cfgN)
  /\ syncManager = FALSE
  /\ ticker = "none"
  /\ pc = [p \in Procs |-> IF p \in Callers THEN "idle" ELSE "none"]
  /\ closed = FALSE
  /\ mu = "free"
  /\ data \in QueryCaches
  /\ dirty = DOMAIN data
  /\ schema \in { << "age" >> \o o : o \in Orders(UNION { DOMAIN data[k] : k \in DOMAIN data } \ {"age"}) }
  /\ sheet = <<>>
  /\ sv = [p \in Procs |-> NoSv]
  /\ res = [t \in Threads |-> NoRes]
  /\ done = FALSE
  /\ syncMutex = "free"
  /\ syncing = FALSE
  /\ compactSaves = 0
  /\ deleted = {}
  /\ freed = {}
  /\ ref = data
  /\ nCalls = [t \in Threads |-> 0]
  /\ nEnv = MaxEvents - 1

NextQuery == \E t \in Threads, q \in QueryInputs : Query(t, q)

SpecQuery == InitQuery /\ [][NextQuery]_vars

\* ------------------------------------------- specification: concurrent Append
\* Every thread calls Append on a new client while the scheduler saves.
InitAppend == InitWith(Threads)

NextAppend ==
  \/ \E t \in Threads, r \in RecInputs : AppendKey(t, r)
  \/ \E t \in Threads : AppendInsert(t)
  \/ \E p \in Procs : SaveDirty(p)
  \/ \E p \in Procs : SaveRecords(p)
  \/ \E p \in Procs : SaveSchema(p)
  \/ \E p \in Procs : SaveCallOk(p)
  \/ \E p \in Procs, cleared \in BOOLEAN : SaveCallFail(p, cleared)
  \/ \E p \in Procs : SaveClear(p)
  \/ SchedTick

SpecAppend == InitAppend /\ [][NextAppend]_vars

\* ------------------------------------------- specification: concurrent Close
\* A new client on which Set(2, r) has returned: the record is cached and
\* dirty, nothing is saved yet. Two threads call the client from here on.
InitClose ==
  /\ cfgN \in CfgMaxRetries
  /\ maxRetries = NewMaxRetries(cfgN)
  /\ \E iv \in CfgSyncInterval :
       /\ syncManager = (iv > 0)
       /\ ticker = IF iv > 0 THEN "running" ELSE "none"
       /\ pc = [p \in Procs |-> IF p = Sched THEN (IF iv > 0 THEN "loop" ELSE "none")
                                ELSE "idle"]
  /\ closed = FALSE
  /\ mu = "free"
  /\ \E r \in RecInputs :
       /\ data = MapPut(<<>>, 2, r)
       /\ ref = MapPut(<<>>, 2, r)
       /\ schema \in updateSchema(<<>>, r)
  /\ dirty = {2}
  /\ sheet \in InitSheets
  /\ sv = [p \in Procs |-> NoSv]
  /\ res = [t \in Threads |-> NoRes]
  /\ done = FALSE
  /\ syncMutex = "free"
  /\ syncing = FALSE
  /\ compactSaves = 0
  /\ deleted = {}
  /\ freed = {}
  /\ nCalls = [t \in Threads |-> 0]
  /\ nEnv = 0

NextClose ==
  \/ \E t \in Threads, k \in KeyInputs, r \in RecInputs : Set(t, k, r)
  \/ \E t \in Threads : Sync(t)
  \/ \E t \in Threads : Close(t)
  \/ \E t \in Threads : Stop(t)
  \/ \E t \in Threads : StopWait(t)
  \/ \E t \in Threads : StopLock(t)
  \/ \E p \in Procs : SaveDirty(p)
  \/ \E p \in Procs : SaveRecords(p)
  \/ \E p \in Procs : SaveSchema(p)
  \/ \E p \in Procs : SaveCallOk(p)
  \/ \E p \in Procs, cleared \in BOOLEAN : SaveCallFail(p, cleared)
  \/ \E p \in Procs : SaveClear(p)
  \/ SchedTick
  \/ SchedExit

SpecClose == InitClose /\ [][NextClose]_vars

\* The steps of a call that process p has started: the rest of Close() and of
\* a save. Every adapter call returns, with success or with an error.
Continues(p) ==
  \/ p \in Threads /\ (Stop(p) \/ StopWait(p) \/ StopLock(p))
  \/ SaveDirty(p) \/ SaveRecords(p) \/ SaveSchema(p) \/ SaveClear(p)
  \/ SaveCallOk(p) \/ \E cleared \in BOOLEAN : SaveCallFail(p, cleared)

\* The steps of a saveToAdapter that process p has started.
Saves(p) ==
  \/ SaveDirty(p) \/ SaveRecords(p) \/ SaveSchema(p) \/ SaveClear(p)
  \/ SaveCallOk(p) \/ \E cleared \in BOOLEAN : SaveCallFail(p, cleared)

\* The same callers, writing the cached record again, under a scheduler that
\* lets every goroutine that can take a step take one: a started call goes on,
\* and the loop's select takes the closed done channel.
NextCloseLive ==
  \/ \E t \in Threads, k \in DOMAIN data, r \in RecInputs : Set(t, k, r)
  \/ \E t \in Threads : Sync(t)
  \/ \E t \in Threads : Close(t)
  \/ \E p \in Procs : Continues(p)
  \/ SchedTick
  \/ SchedExit

SpecCloseLive ==
  /\ InitClose /\ [][NextCloseLive]_vars
  /\ \A p \in Procs : WF_vars(Continues(p))
  /\ WF_vars(SchedExit)

\* ------------------------------------------- specification: background sync
\* The ticker fires and the loop runs performSync, as in SchedTick, any number
\* of times: TryLock, GetDirtyKeys, and saveToAdapter when a key is dirty.
Tick ==
  /\ pc[Sched] = "loop"
  /\ ticker = "running"
  /\ IF syncMutex = "free" /\ dirty # {}
       THEN /\ syncMutex' = Sched
            /\ syncing' = TRUE
            /\ pc' = [pc EXCEPT ![Sched] = "save_dirty"]
            /\ sv' = [sv EXCEPT ![Sched] = [NoSv EXCEPT !.origin = "tick",
                                                        !.strategy = StrategyFor("tick")]]
       ELSE UNCHANGED << syncMutex, syncing, pc, sv >>
  /\ UNCHANGED << clientVars, mu, cacheVars, sheet, res, ticker, done, ghostVars,
                  budgetVars >>

\* A client with a running scheduler on which Set(2, r) has returned.
InitSync == InitClose /\ syncManager

\* Two threads write and call Sync() on a client that is never closed.
NextSync ==
  \/ \E t \in Threads, k \in KeyInputs, r \in RecInputs : Set(t, k, r)
  \/ \E t \in Threads : Sync(t)
  \/ \E p \in Procs : SaveDirty(p)
  \/ \E p \in Procs : SaveRecords(p)
  \/ \E p \in Procs : SaveSchema(p)
  \/ \E p \in Procs : SaveCallOk(p)
  \/ \E p \in Procs, cleared \in BOOLEAN : SaveCallFail(p, cleared)
  \/ \E p \in Procs : SaveClear(p)
  \/ Tick

\* The ticks keep firing, a started save goes on, every adapter call returns
\* and all but a bounded number of them succeed.
SpecSyncLive ==
  /\ InitSync /\ [][NextSync]_vars
  /\ \A p \in Procs : WF_vars(Saves(p))
  /\ WF_vars(Tick)

\* ------------------------------------- specification: writes beside a save
\* A client with a running scheduler after New and Initialize: the cache holds
\* what the sheet held, nothing is dirty.
InitSnapshot ==
  /\ cfgN \in CfgMaxRetries
  /\ maxRetries = NewMaxRetries(cfgN)
  /\ syncManager = TRUE
  /\ ticker = "running"
  /\ pc = [p \in Procs |-> IF p = Sched THEN "loop"
                           ELSE IF p \in Callers THEN "idle" ELSE "none"]
  /\ closed = FALSE
  /\ mu = "free"
  /\ sheet \in InitSheets
  /\ data = LoadData(sheet)
  /\ ref = data
  /\ schema = LoadedSchema(sheet)
  /\ dirty = LoadDirty({})
  /\ sv = [p \in Procs |-> NoSv]
  /\ res = [t \in Threads |-> NoRes]
  /\ done = FALSE
  /\ syncMutex = "free"
  /\ syncing = FALSE
  /\ compactSaves = 0
  /\ deleted = {}
  /\ freed = {}
  /\ nCalls = [t \in Threads |-> 0]
  /\ nEnv = 0

\* A thread writes records with further columns while the scheduler saves.
NextSnapshot ==
  \/ \E t \in Callers, k \in KeyInputs, r \in RecInputs : Set(t, k, r)
  \/ \E t \in Callers, r \in RecInputs : ClientAppend(t, r)
  \/ \E t \in Callers, k \in KeyInputs, u \in CacheUpdInputs : Update(t, k, u)
  \/ \E p \in Procs : SaveDirty(p)
  \/ \E p \in Procs : SaveRecords(p)
  \/ \E p \in Procs : SaveSchema(p)
  \/ \E p \in Procs : SaveCallOk(p)
  \/ \E p \in Procs, cleared \in BOOLEAN : SaveCallFail(p, cleared)
  \/ \E p \in Procs : SaveClear(p)
  \/ SchedTick

SpecSnapshot == InitSnapshot /\ [][NextSnapshot]_vars

\* ===================================================================== claims
\* Thread t starts a facade call in this step.
Starts(t) == nCalls'[t] # nCalls[t]

\* Process p takes a step of the load or save it is running.
StepOf(p) == pc'[p] # pc[p] \/ sv'[p] # sv[p]

\* Control leaves saveToAdapter in this step of p.
SaveReturns(p) == pc[p] \in SavePhases /\ pc'[p] \notin SavePhases

\* Thread t's Sync / Close returns in this step from its saveToAdapter.
SyncReturns(t) == SaveReturns(t) /\ sv[t].origin = "Sync"

CloseReturns(t) == SaveReturns(t) /\ sv[t].origin = "Close"

\* Thread t runs a whole cache call of an open client in this step.
CacheCall(t, op) == Starts(t) /\ ~closed /\ pc'[t] = "idle" /\ res'[t].op = op

\* The snapshot handed to the adapter holds key k with the value v.
InSnapshot(recs, k, v) ==
  \E i \in DOMAIN recs : recs[i].Key = k /\ recs[i].Values = v

\* C1 (as stated): when a Sync() returns success, the store holds no row for a
\* key whose persisted record was removed by Delete and not written since, even
\* when the delete is the only change since the last save.
C1_SyncRemovesDeletedRow ==
  [][\A t \in Threads :
       (SyncReturns(t) /\ res'[t].err = "nil")
         => \A k \in deleted : ~RowHolds(sheet', k)]_vars

\* C2 (as stated): a successful save removes from the dirty set only keys whose
\* current cached value is the one in the snapshot handed to the adapter.
C2_ClearsOnlySnapshotted ==
  [][\A p \in Procs :
       (pc[p] = "save_clear" /\ SaveReturns(p))
         => \A k \in dirty \ dirty' :
              k \in DOMAIN data /\ InSnapshot(sv[p].records, k, data[k])]_vars

\* C3: no step of a save before its final ClearDirty changes the cached
\* records, the dirty set or the schema, so a save that fails on every attempt
\* leaves them as they were, and the dirty set it saw was non-empty; the step
\* that ends a successful save leaves the dirty set empty and the records and
\* schema unchanged.
C3_FailedSaveKeepsDirty ==
  [][\A p \in Procs :
       /\ (pc[p] \in SavePhases /\ pc[p] # "save_clear" /\ StepOf(p))
            => UNCHANGED cacheVars
       /\ (pc[p] = "save_call" /\ SaveReturns(p))
            => sv[p].dirtyKeys # {}
       /\ (pc[p] = "save_clear" /\ SaveReturns(p))
            => dirty' = {} /\ UNCHANGED << data, schema >>]_vars

\* C3 witness: a Sync has returned the retry-exhausted failure and the dirty
\* set is still non-empty.
C3_Witness ==
  \E t \in Threads : res[t].op = "Sync" /\ res[t].err = "failed" /\ dirty # {}

\* C4 (as stated): every Close() of an open client invokes Adapter.Save for its
\* final save (not zero times).
C4_CloseInvokesSave ==
  [][\A t \in Threads : CloseReturns(t) => res'[t].calls >= 1]_vars

\* C4 (amended): Close() of an open client runs the final save procedure once,
\* after Stop() when a scheduler was running and directly otherwise; that
\* save invokes the adapter between 1 and MaxRetries+1 times when some key is
\* dirty as it starts and not at all when none is; Close() of a closed client
\* runs no save.
C4_CloseRunsFinalSaveOnce ==
  [][\A t \in Threads :
       /\ (Starts(t) /\ ~closed /\ closed')
            => /\ sv'[t].origin = "Close" /\ sv'[t].calls = 0
               /\ pc'[t] = (IF syncManager THEN "stop" ELSE "save_dirty")
       /\ (Starts(t) /\ closed) => pc'[t] \notin SavePhases \cup {"stop"}
       /\ (sv[t].origin = "Close" /\ pc[t] # "idle" /\ pc'[t] = "idle")
            => /\ CloseReturns(t)
               /\ res'[t].op = "Close"
               /\ res'[t].calls <= maxRetries + 1
               /\ (res'[t].calls = 0) <=> (pc[t] = "save_dirty" /\ dirty = {})]_vars

\* C4 witness: a Close() that stopped a running scheduler has returned after a
\* final save that reached the adapter.
C4_Witness ==
  \E t \in Threads :
    closed /\ ticker = "stopped" /\ res[t].op = "Close" /\ res[t].calls >= 1

\* C5: closed never becomes false again, and every Get, Set, Append, Update,
\* Delete, Query and Sync started on a closed client returns "client is closed",
\* leaves records, dirty set, schema and the sheet as they were and starts no
\* save.
C5_ClosedIsTerminal ==
  [][/\ closed => closed'
     /\ \A t \in Threads :
          (Starts(t) /\ closed /\ pc'[t] # "load_call" /\ res'[t].op # "Close")
            => /\ res'[t].op \in {"Get", "Set", "Append", "Update", "Delete", "Query", "Sync"}
               /\ res'[t].err = "closed"
               /\ UNCHANGED << data, dirty, schema, sheet, pc, sv, mu >>]_vars

\* C5 witness: a call on a closed client has been rejected.
C5_Witness ==
  \E t \in Threads : closed /\ res[t].op = "Set" /\ res[t].err = "closed"

C7_AtMostConfiguredPlusOne ==
  \A p \in Procs : sv[p].calls <= cfgN + 1

\* C7 (amended): New replaces a configured MaxRetries <= 0 by 3; with the
\* resulting MaxRetries = N a load or a save calls the adapter at most N+1
\* times, a call that succeeds after k failures is call k+1 and ends the
\* load or save, and the failure is returned by the failing call N+1 and
\* wraps that call's error.
C7_AtMostEffectivePlusOne ==
  [][/\ maxRetries = (IF cfgN <= 0 THEN DefaultMaxRetries ELSE cfgN)
     /\ \A p \in Procs :
          /\ sv'[p].calls <= maxRetries + 1
          /\ (pc[p] \in {"save_call", "load_call"} /\ StepOf(p))
               => \/ /\ pc'[p] = pc[p]
                     /\ sv'[p].calls = sv[p].calls + 1
                     /\ sv'[p].calls <= maxRetries
                     /\ sv'[p].err = sv'[p].calls
                  \/ /\ pc'[p] \in {"save_clear", "load_apply"}
                     /\ sv'[p].calls = sv[p].i + 1
                     /\ sv'[p].err = 0
                  \/ /\ pc'[p] \notin {"save_call", "load_call", "save_clear", "load_apply"}
                     /\ sv[p].calls + 1 = maxRetries + 1
                     /\ p \in Threads
                          => /\ res'[p].err \in {"failed", "close:failed"}
                             /\ res'[p].calls = maxRetries + 1
                             /\ res'[p].cause = res'[p].calls
     /\ \A t \in Threads :
          (pc[t] \in {"save_clear", "load_apply"} /\ StepOf(t))
            => /\ res'[t].err = "nil"
               /\ res'[t].calls = sv[t].i + 1]_vars

\* C7 witness: with MaxRetries = 1 configured a Sync() has failed after two
\* adapter calls.
C7_Witness ==
  \E t \in Threads :
    /\ cfgN = 1
    /\ res[t].op = "Sync" /\ res[t].err = "failed" /\ res[t].calls = cfgN + 1

\* C8: Sync() and Close() return a non-nil error when their save exhausts its
\* retries and nil when it succeeds or has nothing to save; a scheduler save
\* that exhausts its retries changes no caller's result, leaves closed and the
\* dirty set as they are and puts the scheduler back in its loop; a failed
\* attempt that is retried, and a successful attempt, report nothing by
\* themselves.
C8_FailureReportedToCaller ==
  [][/\ \A t \in Threads :
          (SaveReturns(t) /\ sv[t].origin \in {"Sync", "Close"})
            => /\ pc[t] \in {"save_dirty", "save_call", "save_clear"}
               /\ res'[t].op = sv[t].origin
               /\ pc[t] = "save_call" => res'[t].err # "nil"
               /\ pc[t] \in {"save_dirty", "save_clear"} => res'[t].err = "nil"
     /\ (SaveReturns(Sched) /\ pc[Sched] = "save_call")
          => UNCHANGED << res, closed, dirty >> /\ pc'[Sched] = "loop"
     /\ \A p \in Procs :
          (pc[p] = "save_call" /\ StepOf(p) /\ ~SaveReturns(p)) => UNCHANGED res]_vars

\* C8 witness: Close() has returned the failure of its final save.
C8_Witness ==
  \E t \in Threads : res[t].op = "Close" /\ res[t].err = "close:failed" /\ dirty # {}

\* C9: Append on an open client succeeds, stores the record under
\* max(keys present \cup {1}) + 1 and returns that key: 2 on an empty cache,
\* greater than every key present before the call, never a duplicate.
C9_AppendKey ==
  [][\A t \in Threads :
       CacheCall(t, "Append")
         => /\ res'[t].err = "nil"
            /\ res'[t].key = SetMax(DOMAIN data \cup {1}) + 1
            /\ DOMAIN data = {} => res'[t].key = 2
            /\ \A j \in DOMAIN data : j < res'[t].key
            /\ DOMAIN data' = DOMAIN data \cup {res'[t].key}
            /\ res'[t].key \in dirty'
            /\ \A j \in DOMAIN data : data'[j] = data[j]]_vars

\* C9 witness: an Append on a cache holding key 2 has returned key 3.
C9_Witness ==
  \E t \in Threads :
    res[t].op = "Append" /\ res[t].err = "nil" /\ res[t].key = 3 /\ {2, 3} \subseteq DOMAIN data

\* C10 (as stated): after Delete removed the record with the maximum key k, the
\* next Append receives k again.
C10_AppendReusesDeletedMax ==
  [][\A t \in Threads :
       (CacheCall(t, "Append") /\ res[t].op = "Delete" /\ res[t].err = "nil"
          /\ \A j \in DOMAIN data : j < res[t].key)
         => res'[t].key = res[t].key]_vars

\* C10 (amended): an Append never receives a key present in the cache; it
\* receives a key freed by Delete only when no higher key remains; after
\* Delete removed the maximum key k the next Append receives the remaining
\* maximum plus one, which is k exactly when k-1 is still present or k = 2.
C10_KeyReuse ==
  [][\A t \in Threads :
       CacheCall(t, "Append")
         => /\ res'[t].key \notin DOMAIN data
            /\ res'[t].err # "duplicate"
            /\ res'[t].key \in freed => \A j \in DOMAIN data : j < res'[t].key
            /\ (res[t].op = "Delete" /\ res[t].err = "nil"
                  /\ \A j \in DOMAIN data : j < res[t].key)
                 => /\ res'[t].key <= res[t].key
                    /\ (res'[t].key = res[t].key)
                         <=> (res[t].key - 1 \in DOMAIN data \/ res[t].key = 2)]_vars

\* C10 witness: an Append has received a key that Delete had freed.
C10_Witness ==
  \E t \in Threads :
    res[t].op = "Append" /\ res[t].err = "nil" /\ res[t].key \in freed

\* Append calls that have returned, when every call so far was an Append.
AppendsDone == nCalls["t1"] + nCalls["t2"] - Cardinality({ t \in Threads : pc[t] = "append" })

\* C11: under any interleaving of Append calls from several threads on an open
\* client every call succeeds, the keys handed out are pairwise distinct, and
\* the cache holds exactly one record per returned call, equal to what the
\* reference map holds: none is lost or overwritten.
C11_ConcurrentAppends ==
  /\ \A t \in Threads : res[t].err = "nil"
  /\ \A t \in Threads : res[t].op = "Append" => res[t].key \in DOMAIN data
  /\ \A t, u \in Threads : (t # u /\ res[t].op = "Append" /\ res[u].op = "Append")
                               => res[t].key # res[u].key
  /\ Cardinality(DOMAIN data) = AppendsDone
  /\ data = ref

\* C11 witness: both threads have appended, one record each, while a
\* further Append holds the lock between key computation and insertion.
C11_Witness ==
  /\ res["t1"].op = "Append" /\ res["t2"].op = "Append"
  /\ Cardinality(DOMAIN data) = 2
  /\ \E t \in Threads : pc[t] = "append" /\ mu = t

\* Thread t runs a whole call on the cache in this step and it returns err.
CacheReturns(t, op, err) == CacheCall(t, op) /\ res'[t].err = err

\* C12: the cache always equals the reference map built from the same Sets,
\* Appends, Updates and Deletes (a load resets both), and Get of a key returns
\* the reference map's record for it, or key not found when the reference map
\* has none.
C12_GetReflectsReference ==
  [][/\ data' = ref'
     /\ \A t \in Threads :
          CacheCall(t, "Get")
            => IF res'[t].key \in DOMAIN ref
                 THEN /\ res'[t].err = "nil"
                      /\ res'[t].out = << [Key |-> res'[t].key, Values |-> ref[res'[t].key]] >>
                 ELSE res'[t].err = "notfound" /\ res'[t].out = <<>>]_vars

\* C12 witness: Get has returned a record that is a Set record with an Update
\* merged in, after a Delete of some key.
C12_Witness ==
  \E t \in Threads :
    /\ res[t].op = "Get" /\ res[t].err = "nil"
    /\ res[t].out[1].Values \notin RecInputs
    /\ freed # {}

\* C13 (as stated): in every reachable state every key present in the cache is
\* at least 2.
C13_KeysAtLeastTwo == \A k \in DOMAIN data : k >= 2

\* No element occurs twice in the sequence.
Distinct(seq) == \A i, j \in 1..Len(seq) : i # j => seq[i] # seq[j]

IsPrefix(a, b) == Len(a) <= Len(b) /\ SubSeq(b, 1, Len(a)) = a

C15_FailedCallsChangeNothing ==
  [][\A t \in Threads :
       /\ CacheCall(t, "Append")
            => (res'[t].err = "duplicate" <=> res'[t].key \in DOMAIN data)
       /\ (\E op \in {"Get", "Update", "Delete"} : CacheCall(t, op))
            => (res'[t].err = "notfound" <=> res'[t].key \notin DOMAIN data)
       /\ (Starts(t) /\ res'[t].err \in {"duplicate", "notfound"})
            => UNCHANGED cacheVars]_vars

\* C15 witness: an Append has been refused with duplicate key while another
\* key was dirty.
C15_Witness ==
  \E t \in Threads :
    /\ res[t].op = "Append" /\ res[t].err = "duplicate"
    /\ res[t].key \in DOMAIN data
    /\ dirty \ {res[t].key} # {}

\* C16: a successful Update(k, partial) leaves under k the old values
\* overridden by the non-nil entries of partial, without the columns partial
\* names with nil and without any nil value; the other records stay, k is
\* dirty, and the schema gains exactly the record's columns it lacked.
C16_UpdateMerges ==
  [][\A t \in Threads :
       CacheReturns(t, "Update", "nil") =>
         LET k == res'[t].key
             partial == res'[t].arg[1]
         IN /\ k \in DOMAIN data
            /\ DOMAIN data' = DOMAIN data
            /\ \A j \in DOMAIN data \ {k} : data'[j] = data[j]
            /\ DOMAIN data'[k] =
                 { c \in DOMAIN data[k] \cup DOMAIN partial :
                     IF c \in DOMAIN partial THEN partial[c] # Nil ELSE TRUE }
            /\ \A c \in DOMAIN data'[k] :
                 /\ data'[k][c] # Nil
                 /\ data'[k][c] = IF c \in DOMAIN partial THEN partial[c] ELSE data[k][c]
            /\ dirty' = dirty \cup {k}
            /\ IsPrefix(schema, schema')
            /\ Range(schema') = Range(schema) \cup DOMAIN data'[k]]_vars

\* C16 witness: an Update has kept column a, removed column b and added column
\* c, which was new to the schema.
C16_Witness ==
  \E t \in Threads :
    /\ res[t].op = "Update" /\ res[t].err = "nil"
    /\ res[t].key \in DOMAIN data
    /\ DOMAIN data[res[t].key] = {"a", "c"}
    /\ data[res[t].key]["a"] = "int64:1"
    /\ schema[Len(schema)] = "c"

\* C17: the step that applies a successful load leaves exactly the records and
\* the schema the adapter returned and an empty dirty set, whatever the cache
\* held; every other step of a load, the one returning the retry failure
\* included, leaves records, dirty set and schema as they were (stated per step
\* of the load, since a scheduler save may run between its steps).
C17_LoadReplaces ==
  [][\A t \in Threads :
       /\ (pc[t] = "load_apply" /\ StepOf(t))
            => /\ data' = LoadData(sv[t].records)
               /\ schema' = (IF sv[t].records = <<>> THEN <<>>
                              ELSE LoadSchema(sv[t].records[1]))
               /\ dirty' = {}
               /\ res'[t].op = "Initialize" /\ res'[t].err = "nil"
       /\ (pc[t] = "load_call" /\ StepOf(t)) => UNCHANGED cacheVars
       /\ (pc'[t] = "load_call" /\ StepOf(t)) => UNCHANGED cacheVars
       /\ (pc[t] = "load_call" /\ pc'[t] = "idle")
            => /\ res'[t].op = "Initialize" /\ res'[t].err = "failed"
               /\ res'[t].calls = maxRetries + 1]_vars

\* C17 witness: a load that needed a second attempt has replaced a cache that
\* held no record of the sheet with the sheet's two records.
C17_Witness ==
  \E t \in Threads :
    /\ res[t].op = "Initialize" /\ res[t].err = "nil" /\ res[t].calls = 2
    /\ DOMAIN data = {2, 3} /\ schema = << "a" >> /\ dirty = {}
    /\ nCalls[t] >= 2

\* Keys of the records a call returned, in the order returned.
Keys(out) == [i \in DOMAIN out |-> out[i].Key]

\* Keys of the cached records that satisfy every condition of the query.
MatchKeys(d, query) == { k \in DOMAIN d : MatchesQuery(d[k], query) }

\* Pagination as specified: drop the first off elements (everything when off
\* is at least the length), then keep lim elements, all of them when lim is
\* not positive.
Page(seq, off, lim) ==
  LET rest == IF off >= Len(seq) THEN <<>>
              ELSE IF off > 0 THEN SubSeq(seq, off + 1, Len(seq)) ELSE seq
  IN IF lim > 0 /\ lim < Len(rest) THEN SubSeq(rest, 1, lim) ELSE rest

\* Thread t's last call was a Query that returned records.
Queried(t) == res[t].op = "Query" /\ res[t].err = "nil"

\* C18 (as stated): Query returns exactly the records that satisfy every
\* condition, in ascending key order (paged from that order).
C18_QueryAscending ==
  \A t \in Threads :
    Queried(t) =>
      LET query == res[t].arg[1]
      IN Keys(res[t].out) = Page(SortedSeq(MatchKeys(data, query)), query.Offset, query.Limit)

\* C19: a Query returns the matching records, in the order it collected them,
\* with the first Offset dropped and then at most Limit kept; an Offset at or
\* beyond the number of matches gives an empty result without error; and
\* ApplyQuery with a Limit of 0 or below truncates nothing.
C19_OffsetThenLimit ==
  /\ \A t \in Threads :
       Queried(t) =>
         LET query == res[t].arg[1]
         IN /\ \E o \in Orders(MatchKeys(data, query)) :
                 Keys(res[t].out) = Page(o, query.Offset, query.Limit)
            /\ query.Offset >= Cardinality(MatchKeys(data, query)) => res[t].out = <<>>
  /\ \A t \in Threads :
       (res[t].op = "Query" /\ (res[t].arg[1].Limit < 0 \/ res[t].arg[1].Offset < 0))
         => res[t].err = "invalid" /\ res[t].out = <<>>
  /\ \A l \in LimitInputs, o \in OffsetInputs, c \in CondInputs :
       LET query == [Conditions |-> c, Limit |-> l, Offset |-> o]
       IN Keys(ApplyQuery(GetAllRecords(data), query))
            = Page(SortedSeq(MatchKeys(data, query)), o, l)

\* C19 witness: a Query with Offset 1 and Limit 2 has returned two of five
\* matching records.
C19_Witness ==
  \E t \in Threads :
    /\ Queried(t)
    /\ res[t].arg[1].Offset = 1 /\ res[t].arg[1].Limit = 2
    /\ Cardinality(MatchKeys(data, res[t].arg[1])) = 5
    /\ Len(res[t].out) = 2

\* The single condition of an unpaged query, if that is what q is.
Unpaged(q) == Len(q.Conditions) = 1 /\ q.Limit = 0 /\ q.Offset = 0

\* Keys of the cached records that lack the column.
Lacking(d, column) == { k \in DOMAIN d : column \notin DOMAIN d[k] }

\* C20 (as stated): a record that lacks the condition's column can satisfy the
\* condition only when the operator is == or != and the comparison value is
\* nil.
C20_OnlyNilComparisonMatches ==
  \A t \in Threads :
    (Queried(t) /\ Unpaged(res[t].arg[1])) =>
      LET c == res[t].arg[1].Conditions[1]
      IN \A k \in Lacking(data, c.Column) :
           k \in Range(Keys(res[t].out))
             => c.Operator \in {"==", "!="} /\ ~c.Value.list /\ c.Value.v[1] = Nil

\* C20 (amended): a record that lacks the condition's column is read as nil
\* there: it satisfies == exactly when the comparison value is nil, != exactly
\* when the comparison value is not nil, in exactly when the list holds nil,
\* and never >, >=, <, <= or between.
C20_MissingColumnIsNil ==
  \A t \in Threads :
    (Queried(t) /\ Unpaged(res[t].arg[1])) =>
      LET c == res[t].arg[1].Conditions[1]
          isNil == ~c.Value.list /\ c.Value.v[1] = Nil
      IN \A k \in Lacking(data, c.Column) :
           k \in Range(Keys(res[t].out))
             <=> \/ c.Operator = "==" /\ isNil
                 \/ c.Operator = "!=" /\ ~isNil
                 \/ c.Operator = "in" /\ c.Value.list /\ Nil \in Range(c.Value.v)

\* C20 witness: a query for age != 20 has returned the record that has no age.
C20_Witness ==
  \E t \in Threads :
    /\ Queried(t)
    /\ res[t].arg[1] = [MatchAll EXCEPT !.Conditions = << Cond("age", "!=", Scalar("int:20")) >>]
    /\ \E i \in DOMAIN res[t].out : "age" \notin DOMAIN res[t].out[i].Values

\* The ways a query can be malformed.
Malformed(q) ==
  \/ q.Limit < 0
  \/ q.Offset < 0
  \/ \E i \in DOMAIN q.Conditions :
       LET c == q.Conditions[i]
       IN \/ c.Operator \notin {"==", "!=", ">", ">=", "<", "<=", "in", "between"}
          \/ c.Column = ""
          \/ c.Operator = "in" /\ ~c.Value.list
          \/ c.Operator = "between" /\ ~(c.Value.list /\ Len(c.Value.v) = 2)

\* C21: a Query is refused with the invalid-query error, returning no record
\* and leaving the cache alone, exactly when it has an unknown operator, an in
\* value that is not a list, a between value that is not a list of two, an
\* empty column name or a negative limit or offset; every other query is
\* evaluated.
C21_ValidationIsPreflight ==
  [][\A t \in Threads :
       CacheCall(t, "Query")
         => /\ res'[t].err = (IF Malformed(res'[t].arg[1]) THEN "invalid" ELSE "nil")
            /\ res'[t].err = "invalid" => res'[t].out = <<>>
            /\ UNCHANGED cacheVars]_vars

\* C21 witness: a query whose between value has one element has been refused
\* on a cache that holds records.
C21_Witness ==
  \E t \in Threads :
    /\ res[t].op = "Query" /\ res[t].err = "invalid"
    /\ res[t].arg[1].Limit = 0 /\ res[t].arg[1].Offset = 0
    /\ res[t].arg[1].Conditions = << Cond("age", "between", List(<< "int:20" >>)) >>
    /\ data # <<>>

\* Process p's Adapter.Save call succeeds in this step with the given strategy.
Saved(p, strategy) ==
  pc[p] = "save_call" /\ pc'[p] = "save_clear" /\ sv[p].strategy = strategy

\* Keys of the records handed to the save p is running.
SavedKeys(p) == { sv[p].records[i].Key : i \in DOMAIN sv[p].records }

\* C22: after a successful gap-preserving save of records with distinct keys
\* of 2 or more, row 1 is the header, each record is in the row whose number
\* is its key, every row from 2 up to the largest key that has no record is
\* blank, and the sheet has no row beyond the largest key.
C22_GapPreservingLayout ==
  [][\A p \in Procs :
       Saved(p, GapPreserving) =>
         LET recs == sv[p].records
             sch == sv[p].schema
             keys == SavedKeys(p)
         IN /\ \A k \in keys : k >= 2
            /\ Cardinality(keys) = Len(recs)
            /\ sheet'[1] = sch
            /\ Len(sheet') = SetMax(keys \cup {1})
            /\ \A i \in DOMAIN recs : sheet'[recs[i].Key] = SheetRow(recs[i].Values, sch)
            /\ \A r \in 2..Len(sheet') : r \notin keys => sheet'[r] = EmptyRow(sch)]_vars

\* C22 witness: a gap-preserving save has written the record with key 3 into
\* row 3 and a blank row 2, key 2 having been deleted.
C22_Witness ==
  \E p \in Procs :
    /\ pc[p] = "save_clear" /\ sv[p].strategy = GapPreserving
    /\ SavedKeys(p) = {3} /\ 2 \in freed
    /\ Len(sheet) = 3
    /\ sheet[2] = EmptyRow(sv[p].schema) /\ sheet[3] # EmptyRow(sv[p].schema)

\* C23: after a successful compacting save of n records, row 1 is the header,
\* the record with the i-th smallest key is in row i + 1, and the sheet has no
\* row beyond n + 1, whatever it held before.
C23_CompactingLayout ==
  [][\A p \in Procs :
       Saved(p, Compacting) =>
         LET recs == sv[p].records
             sch == sv[p].schema
             sorted == SortedSeq(SavedKeys(p))
         IN /\ sheet'[1] = sch
            /\ Len(sheet') = Len(recs) + 1
            /\ Len(sorted) = Len(recs)
            /\ \A i \in DOMAIN recs :
                 /\ recs[i].Key = sorted[i]
                 /\ sheet'[i + 1] = SheetRow(recs[i].Values, sch)]_vars

\* C23 witness: the sheet was loaded with records in rows 2 and 3 under the
\* single column a, key 2 was deleted and key 3 updated, and the compacting
\* save of Close, the first save since the load, has left the record with key
\* 3 in row 2 and nothing in row 3.
C23_Witness ==
  \E p \in Procs :
    /\ pc[p] = "save_clear" /\ sv[p].strategy = Compacting
    /\ SavedKeys(p) = {3} /\ 2 \in freed
    /\ sv[p].schema = << "a" >>
    /\ nEnv = 0 /\ nCalls["t1"] = 4
    /\ sheet = << << "a" >>, << "2" >> >>

\* Some operation of the batch, taken in order from a store holding the keys
\* given, is an Add of a present key or an Update or Delete of an absent one.
RECURSIVE Offends(_, _)
Offends(keys, ops) ==
  IF ops = <<>> THEN FALSE
  ELSE LET op == Head(ops)
           key == op.Record.Key
       IN CASE op.Type = "OpAdd" -> key \in keys \/ Offends(keys \cup {key}, Tail(ops))
            [] op.Type = "OpUpdate" -> key \notin keys \/ Offends(keys, Tail(ops))
            [] op.Type = "OpDelete" -> key \notin keys \/ Offends(keys \ {key}, Tail(ops))

\* Thread t runs a BatchUpdate in this step.
BatchStep(t) == Starts(t) /\ res'[t].op = "BatchUpdate"

\* C24 (as stated): a batch one of whose operations, applied in order to the
\* store's current content, is an Add of an existing key or an Update or a
\* Delete of a key that does not exist fails with an error and leaves the store
\* unchanged.
C24_BatchAllOrNothing ==
  [][\A t \in Threads :
       (BatchStep(t) /\ Offends(LoadKeys(sheet), res'[t].arg[1]))
         => (res'[t].err # "nil" /\ sheet' = sheet)]_vars

\* Number of positions of seq that hold x.
Count(seq, x) == Cardinality({ i \in DOMAIN seq : seq[i] = x })

\* The subsequence of seq whose elements are in S (when keep) or not in S.
Restrict(seq, S, keep) == SelectSeq(seq, LAMBDA x : (x \in S) = keep)

\* Thread t's last call was MergeSchemas.
Merged(t) == res[t].op = "MergeSchemas"

\* C25 (as stated): MergeSchemas(current, sheet) is the sheet columns that
\* occur in current, in sheet order, followed by the current columns not yet
\* included, in current order; and for a current schema of distinct names and
\* any sheet schema the result holds every column of current exactly once and
\* no column absent from current.
C25_MergeAnySheet ==
  \A t \in Threads :
    Merged(t) =>
      LET current == res[t].arg[1]
          sheetSchema == res[t].arg[2]
          result == res[t].out
          common == Restrict(sheetSchema, Range(current), TRUE)
      IN /\ result = common \o Restrict(current, Range(common), FALSE)
         /\ Distinct(current)
              => /\ \A c \in Range(current) : Count(result, c) = 1
                 /\ Range(result) \subseteq Range(current)

\* C25 (amended): the result is built as stated, and it holds every column of
\* current exactly once and no other column when current and the sheet schema
\* each have distinct names.
C25_MergeDistinctSheet ==
  \A t \in Threads :
    Merged(t) =>
      LET current == res[t].arg[1]
          sheetSchema == res[t].arg[2]
          result == res[t].out
          common == Restrict(sheetSchema, Range(current), TRUE)
      IN /\ result = common \o Restrict(current, Range(common), FALSE)
         /\ (Distinct(current) /\ Distinct(sheetSchema))
              => /\ \A c \in Range(current) : Count(result, c) = 1
                 /\ Range(result) \subseteq Range(current)

\* C25 witness: current a, b merged with the sheet's c, b, a gives b, a: the
\* sheet's order, without the column current lacks.
C25_Witness ==
  \E t \in Threads :
    /\ Merged(t)
    /\ res[t].arg = << << "a", "b" >>, << "c", "b", "a" >> >>
    /\ res[t].out = << "b", "a" >>

\* No string of the list holds a comma.
NoComma(value) == \A i \in DOMAIN value : \A j \in DOMAIN value[i] : value[i][j] # ","

\* Thread t's last call was SetStrings followed by GetAsStrings.
RoundTripped(t) == res[t].op = "SetStrings"

\* C26 (as stated): for every list L of strings that hold no comma,
\* SetStrings(col, L) followed by GetAsStrings(col, default) returns L.
C26_RoundTripEveryList ==
  \A t \in Threads :
    (RoundTripped(t) /\ NoComma(res[t].arg[1])) => res[t].out = res[t].arg[1]

\* C26 (amended): the round trip returns L for every list L of comma-free
\* strings other than the list whose only element is the empty string; that
\* list is stored as the empty string and read back as the empty list.
C26_RoundTripButLoneEmpty ==
  \A t \in Threads :
    (RoundTripped(t) /\ NoComma(res[t].arg[1])) =>
      IF res[t].arg[1] = << <<>> >> THEN res[t].out = <<>>
      ELSE res[t].out = res[t].arg[1]

\* C26 witness: a list of two non-empty strings has come back as it was, with
\* a non-empty default at hand.
C26_Witness ==
  \E t \in Threads :
    /\ RoundTripped(t)
    /\ res[t].arg = << << << "x" >>, << "y", "x" >> >>, << << "x" >> >> >>
    /\ res[t].out = << << "x" >>, << "y", "x" >> >>

\* Process p's save has taken its snapshot of the dirty keys and has not
\* finished.
Snapshotted(p) == pc[p] \in SavePhases \ {"save_dirty"}

\* C27 (as stated): no save started by a tick, by Sync() or by Close() runs
\* while another save has taken its snapshot and has not finished.
C27_SavesNeverOverlap ==
  \A p, q \in Procs : (p # q /\ Snapshotted(p)) => pc[q] \notin SavePhases

\* Stop() has been called and has returned.
StopReturned ==
  ticker = "stopped" /\ \A t \in Threads : pc[t] \notin {"stop_wait", "stop_lock"}

\* The timer is stopped, the loop goroutine has exited and no scheduler save
\* is under way.
Quiescent ==
  /\ ticker = "stopped"
  /\ pc[Sched] = "exited"
  /\ syncMutex = "free"
  /\ ~syncing

\* C28: once Stop() has returned the timer is stopped, the loop goroutine has
\* exited and no scheduler save is in progress; this stays so in every later
\* state, the scheduler taking no further step.
C28_StopQuiesces ==
  [][/\ StopReturned' => Quiescent'
     /\ StopReturned => (StopReturned' /\ pc'[Sched] = pc[Sched] /\ sv'[Sched] = sv[Sched])]_vars

\* C28 witness: Stop() has returned to Close, which is about to run its final
\* save; the one write made before Close was saved by the scheduler, which
\* cleared its dirty mark.
C28_Witness ==
  \E t \in Threads :
    /\ StopReturned
    /\ pc[t] = "save_dirty" /\ sv[t].origin = "Close"
    /\ nCalls[t] = 2 /\ nEnv > 0
    /\ (\E k \in DOMAIN data : data[k] \in RecInputs) /\ dirty = {}

\* C29: the case of the claim, a tick handled while an earlier sync holds
\* syncMutex, needs the loop goroutine to be at its select while the lock is
\* held. The lock is taken by performSync, which the loop goroutine runs to its
\* end before it selects again, and by Stop after the goroutine has exited: in
\* no reachable state is the goroutine at its select with the lock held.
C29_NoTickUnderLock == pc[Sched] = "loop" => syncMutex = "free"

\* The scheduler handles a tick in this step: an event that is no thread's.
Ticks ==
  /\ nEnv' # nEnv
  /\ pc[Sched] = "loop"
  /\ \A t \in Threads : pc'[t] = pc[t] /\ sv'[t] = sv[t]

\* C30: a saveToAdapter that finds no dirty key returns at once, with success
\* and no Adapter.Save call for Sync(), leaving cache and sheet as they are; a
\* tick that finds no dirty key starts no save and changes nothing; and a save
\* that found a dirty key returns only after it has called Adapter.Save.
C30_EmptySaveIsNoOp ==
  [][/\ \A p \in Procs :
          SaveReturns(p) =>
            IF pc[p] = "save_dirty"
              THEN /\ dirty = {}
                   /\ UNCHANGED << cacheVars, sheet >>
                   /\ sv[p].calls = 0
                   /\ p \in Threads => (res'[p].err = "nil" /\ res'[p].calls = 0)
              ELSE /\ sv[p].dirtyKeys # {}
                   /\ pc[p] \in {"save_call", "save_clear"}
                   /\ pc[p] = "save_clear" => sv[p].calls >= 1
                   /\ p \in Threads => res'[p].calls >= 1
     /\ \A p \in Procs :
          (pc[p] = "save_dirty" /\ StepOf(p) /\ dirty # {}) => pc'[p] = "save_records"
     /\ (Ticks /\ dirty = {})
          => UNCHANGED << cacheVars, sheet, pc, sv, syncMutex, syncing >>
     /\ (Ticks /\ dirty # {}) => pc'[Sched] = "save_dirty"]_vars

\* C30 witness: Sync() has returned success without an adapter call on a
\* cache that holds a record and has nothing dirty, an earlier save having
\* cleared the mark.
C30_Witness ==
  \E t \in Threads :
    /\ res[t].op = "Sync" /\ res[t].err = "nil" /\ res[t].calls = 0
    /\ pc[t] = "idle"
    /\ (\E k \in DOMAIN data : data[k] \in RecInputs) /\ dirty = {}
    /\ sheet # <<>>

\* The records are ordered strictly ascending by key.
Ascending(recs) == \A i, j \in DOMAIN recs : i < j => recs[i].Key < recs[j].Key

\* C31: the records a save hands to Adapter.Save are all records the cache
\* held when the save read them, clean ones included, each with its values,
\* ordered strictly ascending by key, with the schema read right after; and
\* every retry of the save passes the same records and schema.
C31_SnapshotIsAllRecords ==
  [][\A p \in Procs :
       /\ (pc[p] = "save_records" /\ pc'[p] = "save_schema")
            => /\ { sv'[p].records[i].Key : i \in DOMAIN sv'[p].records } = DOMAIN data
               /\ Len(sv'[p].records) = Cardinality(DOMAIN data)
               /\ \A i \in DOMAIN sv'[p].records :
                    sv'[p].records[i].Values = data[sv'[p].records[i].Key]
               /\ Ascending(sv'[p].records)
       /\ (pc[p] = "save_schema" /\ pc'[p] = "save_call")
            => (sv'[p].schema = schema /\ sv'[p].records = sv[p].records)
       /\ (pc[p] = "save_call" /\ pc'[p] = "save_call" /\ StepOf(p))
            => (sv'[p].records = sv[p].records /\ sv'[p].schema = sv[p].schema
                  /\ sv'[p].calls = sv[p].calls + 1)]_vars

\* C31 witness: a save is at its second Adapter.Save call with a snapshot of
\* two records of which only one was dirty.
C31_Witness ==
  \E p \in Procs :
    /\ pc[p] = "save_call" /\ sv[p].calls = 1
    /\ Len(sv[p].records) = 2
    /\ Cardinality(sv[p].dirtyKeys) = 1

\* C32: the dirty set is a subset of the keys present in the cache, initially
\* and after every step; a Set, Append or Update that succeeds adds exactly
\* the key it stored to the dirty set; a Delete that succeeds removes its key
\* from the records and from the dirty set and touches no other mark; a load
\* and a successful save leave the dirty set empty.
C32_DirtyWithinData ==
  /\ dirty \subseteq DOMAIN data
  /\ [][/\ dirty' \subseteq DOMAIN data'
         /\ \A t \in Threads :
              /\ (\E op \in {"Set", "Append", "Update"} : CacheReturns(t, op, "nil"))
                   => /\ res'[t].key \in DOMAIN data'
                      /\ dirty' = dirty \cup {res'[t].key}
              /\ CacheReturns(t, "Delete", "nil")
                   => /\ res'[t].key \notin DOMAIN data'
                      /\ dirty' = dirty \ {res'[t].key}
              /\ (pc[t] = "load_apply" /\ StepOf(t)) => dirty' = {}
         /\ \A p \in Procs : (pc[p] = "save_clear" /\ StepOf(p)) => dirty' = {}]_vars

\* C32 witness: a Delete has removed a dirty key from the records and from
\* the dirty set while another key stays dirty.
C32_Witness ==
  \E t \in Threads :
    /\ res[t].op = "Delete" /\ res[t].err = "nil"
    /\ res[t].key \notin DOMAIN data /\ res[t].key \notin deleted
    /\ dirty # {} /\ dirty \subseteq DOMAIN data
    /\ sheet = <<>>

\* Attempt number sv[p].i + 1 of p's load or save fails in this step and the
\* loop goes on to another attempt.
Retries(p) == pc[p] \in {"save_call", "load_call"} /\ pc'[p] = pc[p] /\ sv'[p].i = sv[p].i + 1

\* C33 (as stated): after failed attempt number i of a load or save the client
\* waits RetryInterval * 2^(i-1), capped at the ceiling, before the next
\* attempt, whatever RetryInterval is configured; it does not wait after the
\* final attempt.
C33_BackoffFromRetryInterval ==
  [][\A p \in Procs :
       /\ Retries(p)
            => \A ri \in RetryIntervalInputs :
                 sv'[p].slept = (IF ri * (2 ^ sv[p].i) > BackoffCeiling
                                   THEN BackoffCeiling ELSE ri * (2 ^ sv[p].i))
       /\ (pc[p] \in {"save_call", "load_call"} /\ pc'[p] = "idle") => sv'[p].slept = 0]_vars

\* A Close() of thread t returns nil in this step: at once on a client that is
\* already closed, or after its final save.
CloseReturnsNil(t) ==
  \/ Starts(t) /\ closed /\ pc'[t] = "idle" /\ res'[t].op = "Close" /\ res'[t].err = "nil"
  \/ CloseReturns(t) /\ res'[t].err = "nil"

\* C34 (as stated): whenever a Close() returns nil no key is dirty at that
\* moment, for every Close(), a second one after a Close() that returned an
\* error included.
C34_CloseNilMeansClean ==
  [][\A t \in Threads : CloseReturnsNil(t) => dirty' = {}]_vars

\* Thread t is in the final save of its Close().
InFinalSave(t) == pc[t] \in SavePhases /\ sv[t].origin = "Close"

\* While a Close() is in its final save no other process is in a save.
FinalSaveAlone ==
  \A t \in Threads : InFinalSave(t) => \A p \in Procs \ {t} : pc[p] \notin SavePhases

\* The final save of a Close() has started: the client is closed and no
\* thread is still about to stop the scheduler.
FinalSaveBegun == closed /\ \A t \in Threads : pc[t] \notin {"stop", "stop_wait", "stop_lock"}

\* C35: the final save of Close() overlaps no other save: no save of Sync()
\* or of the scheduler is in progress when it starts or while it runs, and
\* once it has started no process starts a save any more.
C35_FinalSaveAlone ==
  [][/\ FinalSaveAlone'
     /\ FinalSaveBegun
          => \A p \in Procs : pc'[p] \in SavePhases => pc[p] \in SavePhases]_vars

\* C35 witness: a Close() that stopped the scheduler is calling the adapter in
\* its final save, the scheduler's goroutine has exited, and a Sync() of the
\* other thread was turned away after the client was closed.
C35_Witness ==
  \E t, u \in Threads :
    /\ pc[t] = "save_call" /\ sv[t].origin = "Close"
    /\ ticker = "stopped" /\ pc[Sched] = "exited"
    /\ res[u].op = "Sync" /\ res[u].err = "closed"

\* Thread t is inside a Close() that found the client open.
Closing(t) == sv[t].origin = "Close"

\* C36: every Close() returns, also when it was issued while a save of the
\* scheduler was in flight or while other threads call the client; the facade
\* lock a Close() has to take is always released again.
C36_CloseTerminates ==
  /\ \A t \in Threads : Closing(t) ~> (~Closing(t) /\ pc[t] = "idle" /\ res[t].op = "Close")
  /\ (mu # "free") ~> (mu = "free")

\* C36 witness: a Close() waits in Stop() for the loop goroutine while the
\* scheduler's save is calling the adapter and the other thread has made a
\* call.
C36_Witness ==
  \E t, u \in Threads :
    /\ Closing(t) /\ pc[t] = "stop_wait"
    /\ pc[Sched] = "save_call"
    /\ u # t /\ nCalls[u] > 0

\* C37 (as stated): with the scheduler running, ticks that keep firing and a
\* client that is never closed, every key that becomes dirty is eventually
\* cleared by a save that persisted it: it leaves the dirty set with a row of
\* its own in the sheet.
C37_DirtyKeyGetsPersisted ==
  \A k \in KeyInputs : (k \in dirty) ~> (k \notin dirty /\ RowHolds(sheet, k))

\* Thread t's Close() goes past the closed check in this step.
ClosePasses(t) == ~Closing(t) /\ Closing(t)'

\* Thread t's Close() starts its final save in this step.
FinalSaveStarts(t) == pc[t] \notin SavePhases /\ pc'[t] \in SavePhases /\ sv'[t].origin = "Close"

\* C38: Close() is single-shot. Only a Close() that finds the client open
\* goes past the closed check, it closes the client for good and no other
\* Close() is past the check then or later; Stop() is called only by it and
\* only while the done channel is open, which it closes for good; the final
\* save is started only by it, once, after Stop() or directly when there was
\* no scheduler. A Close() that finds the client closed returns nil in the
\* same step without stopping anything, calling the adapter or touching the
\* cache.
C38_CloseSingleShot ==
  [][/\ closed => closed'
     /\ done => done'
     /\ \A t \in Threads :
          /\ ClosePasses(t)
               => /\ Starts(t) /\ ~closed /\ closed'
                  /\ \A u \in Threads \ {t} : ~Closing(u)
          /\ (pc[t] = "stop" /\ pc'[t] # "stop")
               => Closing(t) /\ ~done /\ done' /\ ticker' = "stopped"
          /\ FinalSaveStarts(t)
               => /\ Closing(t)' /\ sv'[t].calls = 0
                  /\ \/ pc[t] = "stop_lock" /\ done
                     \/ ClosePasses(t) /\ ~syncManager
          /\ (Starts(t) /\ closed /\ res'[t].op = "Close")
               => /\ res'[t].err = "nil" /\ res'[t].calls = 0 /\ pc'[t] = "idle"
                  /\ UNCHANGED << cacheVars, sheet, sv, schedVars, syncManager >>]_vars

\* C38 witness: one thread's Close() has stopped the scheduler and returned
\* from a final save that called the adapter, and the other thread's Close()
\* has returned nil without a save.
C38_Witness ==
  \E t, u \in Threads :
    /\ t # u /\ closed /\ ticker = "stopped" /\ pc[Sched] = "exited"
    /\ pc[t] = "idle" /\ res[t].op = "Close" /\ res[t].calls >= 1
    /\ pc[u] = "idle" /\ res[u].op = "Close" /\ res[u].calls = 0 /\ res[u].err = "nil"

\* The first Close() has returned: the client is closed and no thread is
\* inside the Close() that closed it.
CloseReturned == closed /\ \A t \in Threads : ~Closing(t)

\* An Adapter.Load or Adapter.Save call of process p returns in this step.
AdapterCalled(p) == pc[p] \in {"load_call", "save_call"} /\ StepOf(p)

\* C39 (as stated): once the first Close() has returned, no step calls the
\* adapter and no step changes the cached records, the dirty set or the
\* schema, whatever public operation is invoked, Initialize included.
C39_NothingAfterClose ==
  [][CloseReturned
       => /\ \A p \in Procs : ~AdapterCalled(p)
          /\ UNCHANGED << data, dirty, schema >>]_vars

\* The columns that occur in the records of a snapshot.
Columns(recs) == UNION { DOMAIN recs[i].Values : i \in DOMAIN recs }

\* C40: whenever a save is about to call Adapter.Save, every column of a
\* record of the snapshot it passes occurs in the schema it passes, also when
\* threads write records with new columns while the scheduler saves.
C40_SnapshotColumnsInSchema ==
  \A p \in Procs :
    pc[p] \in {"save_call", "save_clear"} => Columns(sv[p].records) \subseteq Range(sv[p].schema)

\* C40 witness: the scheduler is about to call Adapter.Save with a schema that
\* holds a column no record of its snapshot has: a thread wrote the column
\* into the cache after the records were read and before the schema was.
C40_Witness ==
  /\ pc[Sched] = "save_call"
  /\ sv[Sched].records # <<>>
  /\ \E c \in Range(sv[Sched].schema) :
       /\ c \notin Columns(sv[Sched].records)
       /\ \E k \in DOMAIN data : c \in DOMAIN data[k]

====
